---------------------------- MODULE Spec2Model ----------------------------
(***************************************************************************)
(* A model of cratetorrent: the piece picker (piece_picker.rs), the         *)
(* peer-wire codec (peer/codec.rs), the vectored I/O view (iovecs.rs), the *)
(* torrent file I/O (disk/io/file.rs), the engine (engine.rs) and the      *)
(* tracker client (tracker.rs, tracker/mod.rs).                            *)
(*                                                                         *)
(* Each subsystem has its own specification over the shared variables:     *)
(*   Spec        the piece picker driven by its torrent actor              *)
(*   SpecLive    the same with fair picks and downloads that complete      *)
(*   SpecCodec   the message and handshake codecs applied to bounded inputs*)
(*   SpecWire    the decoders applied to the bytes a peer sends            *)
(*   SpecStream  messages encoded back to back and decoded from chunks     *)
(*   SpecSession a peer's Bitfield frame decoded and given to the picker   *)
(*   SpecIoVecs  IoVecs views built, advanced and turned into their tail   *)
(*   SpecDisk    a piece written to its files and read back                *)
(*   SpecDiskLive  the same with system calls that return                  *)
(*   SpecEngine  the engine task, its torrents and the disk task           *)
(*   SpecEngineLive  the same under the fairness of the runtime            *)
(*   SpecEngineFaulty  the engine with a failing disk task or dropped handle *)
(*   SpecTracker the tracker client's encoding and decoding                *)
(***************************************************************************)
EXTENDS Integers, Sequences, FiniteSets, TLC

VARIABLES
    picker,   \* the PiecePicker struct: own_pieces, pieces, missing_count, free_count
    ret,      \* the last picker call served by the torrent actor and what it returned
    handed,   \* per piece, the callers pick_piece returned it to since it was last received
    cmsg,     \* codec: the value handed to the encoder
    cbuf,     \* codec: the BytesMut buffer
    ctail,    \* codec: the bytes that arrived in the buffer behind the encoded frame
    cout,     \* codec: what the last decode call returned
    cpc,      \* codec: position of the encode/decode round
    vorig,    \* iovecs: the caller's buffers as handed to bounded / unbounded
    vmax,     \* iovecs: the max_len the view was bounded to, None when unbounded
    view,     \* iovecs: the IoVecs struct: bufs and split
    vadv,     \* iovecs: the bytes the advance calls that returned were given, in sum
    vout,     \* iovecs: the last call on the view and what it returned
    vpc,      \* iovecs: position in the life of the view
    disk,     \* file I/O: the files, the piece, and the call in progress
    engine,   \* engine: the engine task, its channels and the tasks it spawned
    tracker   \* tracker: the value handed to the tracker client and the result

pickerVars == <<picker, ret, handed>>
codecVars == <<cmsg, cbuf, ctail, cout, cpc>>
ioVars == <<vorig, vmax, view, vadv, vout, vpc>>
vars == <<picker, ret, handed, cmsg, cbuf, ctail, cout, cpc,
          vorig, vmax, view, vadv, vout, vpc, disk, engine, tracker>>

\* What a step of one subsystem leaves alone.
notPickerVars == <<codecVars, ioVars, disk, engine, tracker>>
notCodecVars == <<pickerVars, ioVars, disk, engine, tracker>>
notIoVars == <<pickerVars, codecVars, disk, engine, tracker>>
notDiskVars == <<pickerVars, codecVars, ioVars, engine, tracker>>
notEngineVars == <<pickerVars, codecVars, ioVars, disk, tracker>>
notTrackerVars == <<pickerVars, codecVars, ioVars, disk, engine>>

----------------------------------------------------------------------------
(* Bounds of the model *)

\* Largest piece_count a picker is constructed with.
MaxPieces == 2
\* Largest frequency a piece reaches (usize::MAX in the code is out of reach).
MaxFreq == 2

\* The peer sessions that ask the torrent actor for a piece.
Sessions == {"s1", "s2"}

----------------------------------------------------------------------------
(* Option<T> *)

None == [some |-> FALSE]
Some(v) == [some |-> TRUE, value |-> v]

\* usize::saturating_sub(1)
SaturatingSub1(x) == IF x = 0 THEN 0 ELSE x - 1
\* usize::saturating_add(1); the saturation point usize::MAX lies beyond MaxFreq
SaturatingAdd1(x) == x + 1

----------------------------------------------------------------------------
(* Bitfield = BitVec<usize, Msb0>: a 0-indexed sequence of bits *)

BitfieldsOfLen(n) == [0 .. n - 1 -> BOOLEAN]
BitLen(bf) == Cardinality(DOMAIN bf)

RECURSIVE CountZerosFrom(_, _)
CountZerosFrom(bf, i) ==
    IF i >= BitLen(bf) THEN 0
    ELSE (IF bf[i] THEN 0 ELSE 1) + CountZerosFrom(bf, i + 1)
\* BitVec::count_zeros
count_zeros(bf) == CountZerosFrom(bf, 0)

----------------------------------------------------------------------------
(* PiecePicker *)

\* Piece::default()
PieceDefault == [frequency |-> 0, is_pending |-> FALSE]

\* PiecePicker::new(own_pieces)
new(own) ==
    LET missing == count_zeros(own) IN
    [own_pieces    |-> own,
     pieces        |-> [i \in DOMAIN own |-> PieceDefault],
     missing_count |-> missing,
     free_count    |-> missing]

piece_count(self) == BitLen(self.own_pieces)

\* PiecePicker::missing_piece_count
missing_piece_count(self) == self.missing_count

\* PiecePicker::all_pieces_picked
all_pieces_picked_WhenNoneMissing(self) == self.missing_count = 0
all_pieces_picked(self) == self.free_count = 0

\* The condition under which pick_piece takes the piece at index.
PickCondSkipsPendingCheck(self, index) ==
    /\ ~self.own_pieces[index]
    /\ self.pieces[index].frequency > 0
PickCond(self, index) ==
    /\ ~self.own_pieces[index]
    /\ self.pieces[index].frequency > 0
    /\ ~self.pieces[index].is_pending

\* The for loop of pick_piece from index on: the picker after the call and
\* the value returned.
RECURSIVE PickLoop(_, _)
PickLoopFromLast(self, index) ==
    LET cands == {i \in DOMAIN self.own_pieces : PickCond(self, i)} IN
    IF cands = {} THEN [self |-> self, result |-> None]
    ELSE LET i == CHOOSE c \in cands : \A d \in cands : d <= c IN
         [self   |-> [self EXCEPT !.pieces[i].is_pending = TRUE,
                                  !.free_count = SaturatingSub1(@)],
          result |-> Some(i)]
PickLoop(self, index) ==
    IF index >= piece_count(self) THEN [self |-> self, result |-> None]
    ELSE IF PickCond(self, index)
         THEN [self   |-> [self EXCEPT !.pieces[index].is_pending = TRUE,
                                       !.free_count = SaturatingSub1(@)],
               result |-> Some(index)]
         ELSE PickLoop(self, index + 1)

\* PiecePicker::pick_piece
pick_piece_FirstPieceOnly(self) ==
    IF PickCond(self, 0)
    THEN [self   |-> [self EXCEPT !.pieces[0].is_pending = TRUE,
                                  !.free_count = SaturatingSub1(@)],
          result |-> Some(0)]
    ELSE [self |-> self, result |-> None]
pick_piece(self) == PickLoop(self, 0)

\* The for loop of register_peer_pieces from index on.
RECURSIVE RegisterLoop(_, _, _, _)
RegisterLoop(self, bf, index, interested) ==
    IF index >= BitLen(bf) THEN [self |-> self, result |-> interested]
    ELSE IF bf[index]
         THEN RegisterLoop(
                 [self EXCEPT !.pieces[index].frequency = SaturatingAdd1(@)],
                 bf, index + 1,
                 IF ~self.own_pieces[index] THEN TRUE ELSE interested)
         ELSE RegisterLoop(self, bf, index + 1, interested)

\* PiecePicker::register_peer_pieces; panics on a bitfield of another length
register_peer_pieces_InterestedOnlyIfFree(self, bf) ==
    IF BitLen(bf) # piece_count(self)
    THEN [self |-> self, result |-> FALSE, panicked |-> TRUE]
    ELSE LET r == RegisterLoop(self, bf, 0, FALSE) IN
         [self |-> r.self,
          result |-> \E i \in DOMAIN bf :
                        bf[i] /\ ~self.own_pieces[i] /\ ~self.pieces[i].is_pending,
          panicked |-> FALSE]
register_peer_pieces(self, bf) ==
    IF BitLen(bf) # piece_count(self)
    THEN [self |-> self, result |-> FALSE, panicked |-> TRUE]
    ELSE LET r == RegisterLoop(self, bf, 0, FALSE) IN
         [self |-> r.self, result |-> r.result, panicked |-> FALSE]

\* PiecePicker::register_peer_piece; panics on an index out of range
register_peer_piece(self, index) ==
    IF ~(index < piece_count(self))
    THEN [self |-> self, result |-> FALSE, panicked |-> TRUE]
    ELSE LET have_piece == self.own_pieces[index] IN
         [self     |-> [self EXCEPT !.pieces[index].frequency = SaturatingAdd1(@)],
          result   |-> ~have_piece,
          panicked |-> FALSE]

\* PiecePicker::received_piece; panics on an index out of range or a piece
\* already owned, before anything is written
received_piece_NoOwnedAssert(self, index) ==
    IF ~(index < piece_count(self))
    THEN [self |-> self, panicked |-> TRUE]
    ELSE [self |-> [self EXCEPT
                      !.own_pieces[index] = TRUE,
                      !.missing_count = SaturatingSub1(@),
                      !.free_count = IF ~self.pieces[index].is_pending
                                     THEN SaturatingSub1(@) ELSE @,
                      !.pieces[index].is_pending = FALSE],
          panicked |-> FALSE]
received_piece_NoMissingDecrement(self, index) ==
    IF ~(index < piece_count(self))
    THEN [self |-> self, panicked |-> TRUE]
    ELSE IF self.own_pieces[index]
    THEN [self |-> self, panicked |-> TRUE]
    ELSE [self |-> [self EXCEPT
                      !.own_pieces[index] = TRUE,
                      !.free_count = IF ~self.pieces[index].is_pending
                                     THEN SaturatingSub1(@) ELSE @,
                      !.pieces[index].is_pending = FALSE],
          panicked |-> FALSE]
received_piece_KeepsPending(self, index) ==
    IF ~(index < piece_count(self))
    THEN [self |-> self, panicked |-> TRUE]
    ELSE IF self.own_pieces[index]
    THEN [self |-> self, panicked |-> TRUE]
    ELSE [self |-> [self EXCEPT
                      !.own_pieces[index] = TRUE,
                      !.missing_count = SaturatingSub1(@),
                      !.free_count = IF ~self.pieces[index].is_pending
                                     THEN SaturatingSub1(@) ELSE @],
          panicked |-> FALSE]
received_piece_AlwaysFrees(self, index) ==
    IF ~(index < piece_count(self))
    THEN [self |-> self, panicked |-> TRUE]
    ELSE IF self.own_pieces[index]
    THEN [self |-> self, panicked |-> TRUE]
    ELSE [self |-> [self EXCEPT
                      !.own_pieces[index] = TRUE,
                      !.missing_count = SaturatingSub1(@),
                      !.free_count = SaturatingSub1(@),
                      !.pieces[index].is_pending = FALSE],
          panicked |-> FALSE]
received_piece(self, index) ==
    IF ~(index < piece_count(self))
    THEN [self |-> self, panicked |-> TRUE]
    ELSE IF self.own_pieces[index]
    THEN [self |-> self, panicked |-> TRUE]
    ELSE [self |-> [self EXCEPT
                      !.own_pieces[index] = TRUE,
                      !.missing_count = SaturatingSub1(@),
                      !.free_count = IF ~self.pieces[index].is_pending
                                     THEN SaturatingSub1(@) ELSE @,
                      !.pieces[index].is_pending = FALSE],
          panicked |-> FALSE]

----------------------------------------------------------------------------
(* The codec variables while the picker specification runs, and the picker *)
(* variables while the codec specification runs.                           *)

CodecIdle ==
    /\ cmsg = None
    /\ cbuf = <<>>
    /\ ctail = <<>>
    /\ cout = None
    /\ cpc = "idle"

PickerIdle ==
    /\ picker = new([i \in {0} |-> FALSE])
    /\ ret = [op |-> "new"]
    /\ handed = [i \in {0} |-> <<>>]

IoVecsIdle ==
    /\ vorig = <<>>
    /\ vmax = None
    /\ view = None
    /\ vadv = 0
    /\ vout = None
    /\ vpc = "idle"

DiskIdle == disk = None
EngineIdle == engine = None
TrackerIdle == tracker = None
OthersIdle == DiskIdle /\ EngineIdle /\ TrackerIdle

----------------------------------------------------------------------------
(* The piece picker inside its torrent actor: the actor serves one call at *)
(* a time, so every call is one step.                                      *)

Init ==
    /\ \E n \in 1 .. MaxPieces : \E own \in BitfieldsOfLen(n) : picker = new(own)
    /\ ret = [op |-> "new"]
    /\ handed = [i \in DOMAIN picker.own_pieces |-> <<>>]
    /\ CodecIdle
    /\ IoVecsIdle
    /\ OthersIdle

\* A peer session s asks for a piece; the actor calls pick_piece.
PickPiece(s) ==
    LET r == pick_piece(picker) IN
    /\ picker' = r.self
    /\ ret' = [op |-> "pick_piece", caller |-> s, result |-> r.result]
    /\ handed' = IF r.result.some
                 THEN [handed EXCEPT ![r.result.value] = Append(@, s)]
                 ELSE handed
    /\ UNCHANGED notPickerVars

\* A peer's Bitfield message arrives; the actor calls register_peer_pieces.
RegisterPeerPieces(bf) ==
    LET r == register_peer_pieces(picker, bf) IN
    /\ \A i \in DOMAIN picker.pieces : bf[i] => picker.pieces[i].frequency < MaxFreq
    /\ picker' = r.self
    /\ ret' = [op |-> "register_peer_pieces", arg |-> bf,
               result |-> r.result, panicked |-> r.panicked]
    /\ UNCHANGED <<handed, notPickerVars>>

\* A peer's Have message arrives; the actor calls register_peer_piece.
RegisterPeerPiece(index) ==
    LET r == register_peer_piece(picker, index) IN
    /\ index < piece_count(picker) => picker.pieces[index].frequency < MaxFreq
    /\ picker' = r.self
    /\ ret' = [op |-> "register_peer_piece", arg |-> index,
               result |-> r.result, panicked |-> r.panicked]
    /\ UNCHANGED <<handed, notPickerVars>>

\* The disk reports a piece complete; the actor calls received_piece.
ReceivedPiece(index) ==
    LET r == received_piece(picker, index) IN
    /\ picker' = r.self
    /\ ret' = [op |-> "received_piece", arg |-> index, panicked |-> r.panicked]
    /\ handed' = IF r.panicked THEN handed ELSE [handed EXCEPT ![index] = <<>>]
    /\ UNCHANGED notPickerVars

\* The disk reports that a picked piece failed its SHA-1 check.  impl
\* PiecePicker has no method that clears is_pending of a piece that is not
\* owned (its fields are private, pieces() is a shared borrow), so the actor
\* has nothing to call: the picker stays as it is.
PieceInvalid(index) ==
    /\ picker.pieces[index].is_pending
    /\ ret' = [op |-> "piece_invalid", arg |-> index]
    /\ UNCHANGED <<picker, handed, notPickerVars>>

\* The bitfields peers send: every one of the torrent's length, and one that
\* is a bit too long.
PeerBitfields(n) == BitfieldsOfLen(n) \cup {[i \in 0 .. n |-> TRUE]}

Next ==
    \/ \E s \in Sessions : PickPiece(s)
    \/ \E bf \in PeerBitfields(piece_count(picker)) : RegisterPeerPieces(bf)
    \/ \E index \in 0 .. piece_count(picker) : RegisterPeerPiece(index)
    \/ \E index \in 0 .. piece_count(picker) : ReceivedPiece(index)
    \/ \E index \in DOMAIN picker.pieces : PieceInvalid(index)

Spec == Init /\ [][Next]_vars

\* A piece that was picked is downloaded and reported to the picker.
ReceivedPickedPiece ==
    \E index \in DOMAIN picker.pieces :
        picker.pieces[index].is_pending /\ ReceivedPiece(index)

\* The sessions keep asking for pieces, and every picked piece is received
\* in the end.
PickerFairness ==
    /\ WF_vars(\E s \in Sessions : PickPiece(s))
    /\ WF_vars(ReceivedPickedPiece)

SpecLive == Init /\ [][Next]_vars /\ PickerFairness


----------------------------------------------------------------------------
(* Properties of the piece picker, checked under Spec *)

Indices == DOMAIN picker.own_pieces
MissingPieces == {i \in Indices : ~picker.own_pieces[i]}
PendingPieces == {i \in Indices : picker.pieces[i].is_pending}
FreePieces == {i \in Indices : ~picker.own_pieces[i] /\ ~picker.pieces[i].is_pending}
OwnedPieces == {i \in Indices : picker.own_pieces[i]}

\* C1: after any sequence of picker operations missing_piece_count() is the
\* number of false bits of own_pieces, so missing_count + owned_count is
\* piece_count.
C1_MissingCountIsZeros ==
    /\ missing_piece_count(picker) = Cardinality(MissingPieces)
    /\ missing_piece_count(picker) + Cardinality(OwnedPieces) = piece_count(picker)

\* One of two pieces was received, the other is missing and pending.
C1_Witness ==
    /\ ret.op = "received_piece" /\ ~ret.panicked
    /\ piece_count(picker) = 2
    /\ Cardinality(OwnedPieces) = 1
    /\ missing_piece_count(picker) = 1
    /\ PendingPieces # {}

\* C2: free_count is the number of pieces neither owned nor pending, with
\* 0 <= free_count <= missing_count <= piece_count; a pick that returns a
\* piece lowers free_count by one, receiving a never-picked piece lowers it by
\* one, receiving a pending piece leaves it as it was.
C2_FreeCountState ==
    /\ picker.free_count = Cardinality(FreePieces)
    /\ 0 <= picker.free_count
    /\ picker.free_count <= picker.missing_count
    /\ picker.missing_count <= piece_count(picker)

C2_FreeCountStep ==
    /\ (ret'.op = "pick_piece" /\ ret'.result.some)
          => picker'.free_count = picker.free_count - 1
    /\ (ret'.op = "received_piece" /\ ~ret'.panicked)
          => picker'.free_count =
                IF picker.pieces[ret'.arg].is_pending
                THEN picker.free_count ELSE picker.free_count - 1

C2_FreeCount == []C2_FreeCountState /\ [][C2_FreeCountStep]_vars

\* A picked piece was received while the other piece is still free.
C2_Witness ==
    /\ ret.op = "received_piece" /\ ~ret.panicked
    /\ picker.pieces[ret.arg].frequency > 0
    /\ piece_count(picker) = 2
    /\ picker.free_count = 1
    /\ picker.missing_count = 1

\* C3: no index is returned by pick_piece twice without a received_piece for
\* it in between, whichever sessions ask: every piece has been handed to at
\* most one caller since it was last received, exactly the pending pieces
\* have a holder, and the index returned is never an owned one.
C3_NoDoublePick ==
    /\ \A i \in Indices :
          /\ Len(handed[i]) <= 1
          /\ picker.pieces[i].is_pending <=> Len(handed[i]) = 1
    /\ (ret.op = "pick_piece" /\ ret.result.some)
          => ~picker.own_pieces[ret.result.value]

\* Two sessions each hold a different piece.
C3_Witness ==
    /\ ret.op = "pick_piece" /\ ret.result.some
    /\ \E i, j \in Indices :
          /\ i # j
          /\ handed[i] = <<"s1">>
          /\ handed[j] = <<"s2">>

\* C4: pick_piece returns the smallest index that is not owned, has a
\* frequency above 0 and is not pending, and marks exactly that piece
\* pending; it returns None and changes nothing iff there is no such index.
C4_Candidates ==
    {i \in Indices : /\ ~picker.own_pieces[i]
                     /\ picker.pieces[i].frequency > 0
                     /\ ~picker.pieces[i].is_pending}

C4_PickStep ==
    ret'.op = "pick_piece" =>
        IF C4_Candidates = {}
        THEN ret'.result = None /\ picker' = picker
        ELSE LET m == CHOOSE c \in C4_Candidates : \A d \in C4_Candidates : c <= d IN
             /\ ret'.result = Some(m)
             /\ picker'.pieces = [picker.pieces EXCEPT ![m].is_pending = TRUE]
             /\ picker'.own_pieces = picker.own_pieces

C4_PicksSmallest == [][C4_PickStep]_vars

\* With every piece advertised and none owned, the last of piece_count picks
\* returned the last index, after a smaller index was skipped as pending.
C4_Witness ==
    /\ ret.op = "pick_piece"
    /\ piece_count(picker) = 2
    /\ ret.result = Some(1)
    /\ PendingPieces = Indices
    /\ OwnedPieces = {}

\* C5: an owned piece is never pending, own_pieces[i] once set is never
\* cleared, and a pending piece becomes free again only in the step that
\* handles its failed verification.
C5_OwnedNotPending ==
    \A i \in Indices : picker.own_pieces[i] => ~picker.pieces[i].is_pending

C5_PieceStep ==
    \A i \in Indices :
        /\ picker.own_pieces[i] => picker'.own_pieces[i]
        /\ (/\ picker.pieces[i].is_pending
            /\ ~picker'.pieces[i].is_pending
            /\ ~picker'.own_pieces[i])
              => (ret'.op = "piece_invalid" /\ ret'.arg = i)

C6_InvalidPieceIsFreed ==
    ret.op = "piece_invalid" =>
        /\ ~picker.pieces[ret.arg].is_pending
        /\ ~picker.own_pieces[ret.arg]
        /\ picker.free_count = Cardinality(FreePieces)
        /\ ret.arg \in C4_Candidates

\* C7: received_piece panics when the piece is already owned or the index is
\* out of range, and then none of own_pieces, missing_count, free_count or
\* the pending flags has changed.
C7_ReceivedStep ==
    ret'.op = "received_piece" =>
        /\ (ret'.arg >= piece_count(picker) \/ picker.own_pieces[ret'.arg])
              => ret'.panicked
        /\ ret'.panicked => picker' = picker

C7_ReceivedTwicePanics == [][C7_ReceivedStep]_vars

\* received_piece panicked on a piece that is owned, with another one pending.
C7_Witness ==
    /\ ret.op = "received_piece" /\ ret.panicked
    /\ ret.arg < piece_count(picker)
    /\ picker.own_pieces[ret.arg]
    /\ picker.missing_count = piece_count(picker) - 1
    /\ PendingPieces # {}

\* C8: for a bitfield of length piece_count, register_peer_pieces returns
\* true iff the peer has a piece we do not own, pending or not, and raises
\* the frequency of exactly the set indices by one; register_peer_piece(i)
\* returns true iff piece i is not owned.
C8_RegisterStep ==
    /\ (ret'.op = "register_peer_pieces" /\ BitLen(ret'.arg) = piece_count(picker)) =>
          /\ ~ret'.panicked
          /\ ret'.result <=> \E i \in Indices : ret'.arg[i] /\ ~picker.own_pieces[i]
          /\ \A i \in Indices :
                picker'.pieces[i].frequency =
                    picker.pieces[i].frequency + (IF ret'.arg[i] THEN 1 ELSE 0)
    /\ (ret'.op = "register_peer_piece" /\ ret'.arg < piece_count(picker)) =>
          /\ ~ret'.panicked
          /\ ret'.result <=> ~picker.own_pieces[ret'.arg]

C8_Interest == [][C8_RegisterStep]_vars

\* We are interested in a peer whose only piece we lack is one already pending.
C8_Witness ==
    /\ ret.op = "register_peer_pieces"
    /\ ret.result
    /\ \E i \in Indices : ret.arg[i] /\ picker.own_pieces[i]
    /\ \A i \in Indices :
          (ret.arg[i] /\ ~picker.own_pieces[i]) => picker.pieces[i].is_pending

----------------------------------------------------------------------------
(* Bytes and the buffer operations of the bytes crate *)

\* Largest number of data bytes of a Block message.
MaxData == 2
\* Largest bit length of the Bitfield messages enumerated in full.
MaxBits == 9
\* Largest number of bytes that arrive behind the encoded frame.
MaxTail == 1

\* The width of usize, the storage word of Bitfield (a 64-bit target).
WordBits == 64

Take(buf, n) == SubSeq(buf, 1, n)
Drop(buf, n) == SubSeq(buf, n + 1, Len(buf))

\* BufMut::put_u32: big-endian
put_u32(v) ==
    <<(v \div 16777216) % 256, (v \div 65536) % 256, (v \div 256) % 256, v % 256>>
\* Buf::get_u32 of the first four bytes: big-endian
get_u32(buf) == buf[1] * 16777216 + buf[2] * 65536 + buf[3] * 256 + buf[4]

\* [v; n]
Repeat(v, n) == [i \in 1 .. n |-> v]

----------------------------------------------------------------------------
(* Bitfield on the wire *)

\* Number of usize words behind a bit vector of n bits.
WordCount(n) == (n + WordBits - 1) \div WordBits

\* `w as u8` of word k of bf.as_raw_slice(): the low 8 bits of the word,
\* which under Msb0 hold the bits 56..63 of the word.  Bits at and beyond
\* bf.len() are dead bits of the storage; they hold what the vector was
\* filled with (BitVec::repeat(bit, n) fills whole words), given as dead.
RawWordAsU8(bf, k, dead) ==
    LET bit(j) == LET i == k * WordBits + (WordBits - 8) + j IN
                  IF (IF i < BitLen(bf) THEN bf[i] ELSE dead) THEN 1 ELSE 0
    IN  bit(0) * 128 + bit(1) * 64 + bit(2) * 32 + bit(3) * 16
        + bit(4) * 8 + bit(5) * 4 + bit(6) * 2 + bit(7)

\* bf.as_raw_slice().iter().map(|&w| w as u8).collect()
RawBytes(bf, dead) ==
    [k \in 1 .. WordCount(BitLen(bf)) |-> RawWordAsU8(bf, k - 1, dead)]

\* Bitfield::from_vec(raw.into_iter().map(|b| b as usize).collect()): one
\* whole word per byte, the byte in the word's low 8 bits.
from_vec(raw) ==
    [i \in 0 .. Len(raw) * WordBits - 1 |->
        LET k == i \div WordBits
            j == i % WordBits
        IN  IF j < WordBits - 8 THEN FALSE
            ELSE (raw[k + 1] \div (2 ^ (WordBits - 1 - j))) % 2 = 1]

----------------------------------------------------------------------------
(* Messages *)

KeepAlive == [type |-> "KeepAlive"]
Choke == [type |-> "Choke"]
Unchoke == [type |-> "Unchoke"]
Interested == [type |-> "Interested"]
NotInterested == [type |-> "NotInterested"]
Have(pi) == [type |-> "Have", piece_index |-> pi]
BitfieldMsg(bf) == [type |-> "Bitfield", bits |-> bf]
BlockInfo(pi, off, len) == [piece_index |-> pi, offset |-> off, len |-> len]
Request(info) == [type |-> "Request", info |-> info]
Cancel(info) == [type |-> "Cancel", info |-> info]
Block(pi, off, data) ==
    [type |-> "Block", piece_index |-> pi, offset |-> off, data |-> data]

\* MessageId as u8
MessageId(type) ==
    CASE type = "Choke" -> 0
      [] type = "Unchoke" -> 1
      [] type = "Interested" -> 2
      [] type = "NotInterested" -> 3
      [] type = "Have" -> 4
      [] type = "Bitfield" -> 5
      [] type = "Request" -> 6
      [] type = "Block" -> 7
      [] type = "Cancel" -> 8

\* BlockInfo::encode
BlockInfoEncode(info) ==
    put_u32(info.piece_index) \o put_u32(info.offset) \o put_u32(info.len)

\* <PeerCodec as Encoder<Message>>::encode: the bytes appended to the buffer.
\* Every piece_index enumerated fits u32, so the try_into never fails.
EncodeBitfield(bf, dead) ==
    LET byte_len == BitLen(bf) \div 8 IN
    put_u32(1 + byte_len) \o <<MessageId("Bitfield")>> \o RawBytes(bf, dead)

encode(msg, dead) ==
    CASE msg.type = "KeepAlive" -> put_u32(0)
      [] msg.type = "Bitfield" -> EncodeBitfield(msg.bits, dead)
      [] msg.type \in {"Choke", "Unchoke", "Interested", "NotInterested"} ->
            put_u32(1) \o <<MessageId(msg.type)>>
      [] msg.type = "Have" ->
            put_u32(1 + 4) \o <<MessageId("Have")>> \o put_u32(msg.piece_index)
      [] msg.type = "Request" ->
            put_u32(1 + 3 * 4) \o <<MessageId("Request")>> \o BlockInfoEncode(msg.info)
      [] msg.type = "Block" ->
            LET data_len == Len(msg.data) IN
            put_u32(1 + 2 * 4 + data_len) \o <<MessageId("Block")>>
                \o put_u32(msg.piece_index) \o put_u32(msg.offset) \o msg.data
      [] msg.type = "Cancel" ->
            put_u32(1 + 3 * 4) \o <<MessageId("Cancel")>> \o BlockInfoEncode(msg.info)

\* What a decode call returns: Ok(None), Ok(Some(item)), Err(e), or a panic.
DecNone == [kind |-> "None"]
DecSome(item) == [kind |-> "Some", item |-> item]
DecErr(e) == [kind |-> "Err", error |-> e]
DecPanic == [kind |-> "Panic"]

\* The match on the message id in decode, buf being the buffer behind the id
\* byte: Buf::get_u32 panics when fewer than 4 bytes remain, and
\* msg_len - 1 - 8 underflows for a Block shorter than its header.
DecodeBody(id, msg_len, buf) ==
    CASE id = 0 -> [out |-> DecSome(Choke), buf |-> buf]
      [] id = 1 -> [out |-> DecSome(Unchoke), buf |-> buf]
      [] id = 2 -> [out |-> DecSome(Interested), buf |-> buf]
      [] id = 3 -> [out |-> DecSome(NotInterested), buf |-> buf]
      [] id = 4 ->
            IF Len(buf) < 4 THEN [out |-> DecPanic, buf |-> buf]
            ELSE [out |-> DecSome(Have(get_u32(buf))), buf |-> Drop(buf, 4)]
      [] id = 5 ->
            [out |-> DecSome(BitfieldMsg(from_vec(Take(buf, msg_len - 1)))),
             buf |-> Drop(buf, msg_len - 1)]
      [] id \in {6, 8} ->
            IF Len(buf) < 12 THEN [out |-> DecPanic, buf |-> buf]
            ELSE LET info == BlockInfo(get_u32(buf), get_u32(Drop(buf, 4)),
                                       get_u32(Drop(buf, 8)))
                 IN  [out |-> DecSome(IF id = 6 THEN Request(info) ELSE Cancel(info)),
                      buf |-> Drop(buf, 12)]
      [] id = 7 ->
            IF Len(buf) < 8 \/ msg_len < 9 THEN [out |-> DecPanic, buf |-> buf]
            ELSE LET data_len == msg_len - 1 - 8 IN
                 IF Len(buf) - 8 < data_len THEN [out |-> DecPanic, buf |-> buf]
                 ELSE [out |-> DecSome(Block(get_u32(buf), get_u32(Drop(buf, 4)),
                                             SubSeq(buf, 9, 8 + data_len))),
                       buf |-> Drop(buf, 8 + data_len)]

\* <PeerCodec as Decoder>::decode: what it returns and the buffer it leaves
decode_ClearsBuffer(buf) ==
    IF Len(buf) < 4 THEN [out |-> DecNone, buf |-> buf]
    ELSE LET msg_len == get_u32(buf) IN
         IF Len(buf) < 4 + msg_len THEN [out |-> DecNone, buf |-> buf]
         ELSE IF msg_len = 0 THEN [out |-> DecSome(KeepAlive), buf |-> <<>>]
         ELSE LET id == buf[5] IN
              IF id \notin 0 .. 8
              THEN [out |-> DecErr("unknown message ID"), buf |-> <<>>]
              ELSE [out |-> DecodeBody(id, msg_len, Drop(buf, 5)).out, buf |-> <<>>]
decode_UnknownIdSkipped(buf) ==
    IF Len(buf) < 4 THEN [out |-> DecNone, buf |-> buf]
    ELSE LET msg_len == get_u32(buf) IN
         IF Len(buf) < 4 + msg_len THEN [out |-> DecNone, buf |-> buf]
         ELSE IF msg_len = 0 THEN [out |-> DecSome(KeepAlive), buf |-> Drop(buf, 4)]
         ELSE LET id == buf[5] IN
              IF id \notin 0 .. 8
              THEN [out |-> DecNone, buf |-> Drop(buf, 4 + msg_len)]
              ELSE DecodeBody(id, msg_len, Drop(buf, 5))
decode(buf) ==
    IF Len(buf) < 4 THEN [out |-> DecNone, buf |-> buf]
    ELSE LET msg_len == get_u32(buf) IN
         IF Len(buf) < 4 + msg_len THEN [out |-> DecNone, buf |-> buf]
         ELSE IF msg_len = 0 THEN [out |-> DecSome(KeepAlive), buf |-> Drop(buf, 4)]
         ELSE LET id == buf[5] IN
              IF id \notin 0 .. 8
              THEN [out |-> DecErr("unknown message ID"), buf |-> Drop(buf, 5)]
              ELSE DecodeBody(id, msg_len, Drop(buf, 5))

----------------------------------------------------------------------------
(* Handshake *)

\* PROTOCOL_STRING.as_bytes(): "BitTorrent protocol"
PROTOCOL_STRING ==
    <<66, 105, 116, 84, 111, 114, 114, 101, 110, 116, 32,
      112, 114, 111, 116, 111, 99, 111, 108>>

\* <HandshakeCodec as Encoder<Handshake>>::encode: the bytes appended
HandshakeEncode(h) ==
    <<Len(h.prot)>> \o h.prot \o h.reserved \o h.info_hash \o h.peer_id

\* <HandshakeCodec as Decoder>::decode
HandshakeDecode_PeerIdFirst(buf) ==
    IF buf = <<>> THEN [out |-> DecNone, buf |-> buf]
    ELSE LET prot_len == buf[1] IN
         IF prot_len # Len(PROTOCOL_STRING)
         THEN [out |-> DecErr("unexpected protocol string length"), buf |-> buf]
         ELSE LET needed == 1 + prot_len + 8 + 20 + 20 IN
              IF Len(buf) < needed THEN [out |-> DecNone, buf |-> buf]
              ELSE [out |-> DecSome([prot      |-> SubSeq(buf, 2, 20),
                                     reserved  |-> SubSeq(buf, 21, 28),
                                     peer_id   |-> SubSeq(buf, 29, 48),
                                     info_hash |-> SubSeq(buf, 49, 68)]),
                    buf |-> Drop(buf, 68)]
HandshakeDecode_LengthFirst(buf) ==
    IF Len(buf) < 1 + Len(PROTOCOL_STRING) + 8 + 20 + 20
    THEN [out |-> DecNone, buf |-> buf]
    ELSE IF buf[1] # Len(PROTOCOL_STRING)
    THEN [out |-> DecErr("unexpected protocol string length"), buf |-> buf]
    ELSE [out |-> DecSome([prot      |-> SubSeq(buf, 2, 20),
                           reserved  |-> SubSeq(buf, 21, 28),
                           info_hash |-> SubSeq(buf, 29, 48),
                           peer_id   |-> SubSeq(buf, 49, 68)]),
          buf |-> Drop(buf, 68)]
HandshakeDecode(buf) ==
    IF buf = <<>> THEN [out |-> DecNone, buf |-> buf]
    ELSE LET prot_len == buf[1] IN
         IF prot_len # Len(PROTOCOL_STRING)
         THEN [out |-> DecErr("unexpected protocol string length"), buf |-> buf]
         ELSE LET needed == 1 + prot_len + 8 + 20 + 20 IN
              IF Len(buf) < needed THEN [out |-> DecNone, buf |-> buf]
              ELSE [out |-> DecSome([prot      |-> SubSeq(buf, 2, 20),
                                     reserved  |-> SubSeq(buf, 21, 28),
                                     info_hash |-> SubSeq(buf, 29, 48),
                                     peer_id   |-> SubSeq(buf, 49, 68)]),
                    buf |-> Drop(buf, 68)]

----------------------------------------------------------------------------
(* The values the codecs are applied to *)

\* u32 values: the ends of the range TLC's integers hold, and values whose
\* big-endian bytes differ from one another.
U32Samples == {0, 1, 255, 256, 16909060, 2147483647}

DataBytes == {0, 255}
BlockDatas == UNION {[1 .. n -> DataBytes] : n \in 0 .. MaxData}

\* Every bitfield of up to MaxBits bits, and bitfields of a whole storage
\* word and of one bit more.
LongBitfields ==
    UNION {{[i \in 0 .. n - 1 |-> TRUE], [i \in 0 .. n - 1 |-> FALSE],
            [i \in 0 .. n - 1 |-> i = n - 1]} : n \in {WordBits, WordBits + 1}}
CodecBitfields == UNION {BitfieldsOfLen(n) : n \in 0 .. MaxBits} \cup LongBitfields

BlockInfos ==
    {BlockInfo(pi, off, len) : pi \in U32Samples, off \in {0, 16384}, len \in {0, 16384}}

Messages ==
    {KeepAlive, Choke, Unchoke, Interested, NotInterested}
    \cup {Have(pi) : pi \in U32Samples}
    \cup {BitfieldMsg(bf) : bf \in CodecBitfields}
    \cup {Request(info) : info \in BlockInfos}
    \cup {Cancel(info) : info \in BlockInfos}
    \cup {Block(pi, off, data) : pi \in U32Samples, off \in {0, 16384}, data \in BlockDatas}

\* n bytes b, b + step, b + 2 step, ...
Fill(n, b, step) == [i \in 1 .. n |-> (b + step * (i - 1)) % 256]

Handshakes ==
    {[prot |-> prot, reserved |-> reserved, info_hash |-> info_hash, peer_id |-> peer_id] :
        prot \in {PROTOCOL_STRING, Fill(19, 19, 0)},
        reserved \in {Repeat(0, 8), Fill(8, 128, 1)},
        info_hash \in {Fill(20, 0, 0), Fill(20, 1, 1), Fill(20, 255, 0)},
        peer_id \in {Fill(20, 0, 0), Fill(20, 45, 3), Fill(20, 19, 0)}}

TailBytes == {0, 19}

----------------------------------------------------------------------------
(* The codecs at work: a value is encoded into an empty buffer, further     *)
(* bytes of the stream may arrive behind it, and the decoder is called.    *)

CodecInit ==
    /\ cmsg = None
    /\ cbuf = <<>>
    /\ ctail = <<>>
    /\ cout = None
    /\ cpc = "start"
    /\ PickerIdle
    /\ IoVecsIdle
    /\ OthersIdle

\* Encoder<Message>::encode(msg, buf); dead is the fill of the bitfield
\* storage beyond its length.
EncodeMessage(msg, dead) ==
    /\ cpc = "start"
    /\ cmsg' = msg
    /\ cbuf' = cbuf \o encode(msg, dead)
    /\ cpc' = "encoded_message"
    /\ UNCHANGED <<ctail, cout, notCodecVars>>

\* Encoder<Handshake>::encode(h, buf)
EncodeHandshake(h) ==
    /\ cpc = "start"
    /\ cmsg' = h
    /\ cbuf' = cbuf \o HandshakeEncode(h)
    /\ cpc' = "encoded_handshake"
    /\ UNCHANGED <<ctail, cout, notCodecVars>>

\* The socket delivers one more byte of the stream into the buffer.
Receive(b) ==
    /\ cpc \in {"encoded_message", "encoded_handshake"}
    /\ Len(ctail) < MaxTail
    /\ cbuf' = Append(cbuf, b)
    /\ ctail' = Append(ctail, b)
    /\ UNCHANGED <<cmsg, cout, cpc, notCodecVars>>

\* Decoder::decode(buf) of PeerCodec
DecodeMessage ==
    /\ cpc = "encoded_message"
    /\ LET r == decode(cbuf) IN
       /\ cout' = r.out
       /\ cbuf' = r.buf
    /\ cpc' = "decoded_message"
    /\ UNCHANGED <<cmsg, ctail, notCodecVars>>

\* Decoder::decode(buf) of HandshakeCodec
DecodeHandshake ==
    /\ cpc = "encoded_handshake"
    /\ LET r == HandshakeDecode(cbuf) IN
       /\ cout' = r.out
       /\ cbuf' = r.buf
    /\ cpc' = "decoded_handshake"
    /\ UNCHANGED <<cmsg, ctail, notCodecVars>>

CodecNext ==
    \/ \E msg \in Messages, dead \in BOOLEAN : EncodeMessage(msg, dead)
    \/ \E h \in Handshakes : EncodeHandshake(h)
    \/ \E b \in TailBytes : Receive(b)
    \/ DecodeMessage
    \/ DecodeHandshake

SpecCodec == CodecInit /\ [][CodecNext]_vars

----------------------------------------------------------------------------
(* Properties of the codecs, checked under SpecCodec *)

\* C9: for every message, decoding the bytes its encoding produced returns
\* the message and leaves the buffer empty.
C9_MessageRoundTrip ==
    (cpc = "decoded_message" /\ ctail = <<>>) =>
        /\ cout = DecSome(cmsg)
        /\ cbuf = <<>>

\* The round trip of every message that is not a non-empty Bitfield.
RoundTripButBitfield ==
    (cpc = "decoded_message" /\ (cmsg.type = "Bitfield" => BitLen(cmsg.bits) = 0)) =>
        /\ cout = DecSome(cmsg)
        /\ cbuf = ctail

\* C10: a handshake is encoded as 68 bytes: the length byte 19, the 19
\* protocol bytes, 8 reserved bytes, the 20-byte info_hash and the 20-byte
\* peer_id; decoding them returns the handshake and takes exactly those 68
\* bytes from the buffer.
C10_HandshakeState ==
    /\ cpc = "encoded_handshake" =>
          /\ Len(cbuf) = 68 + Len(ctail)
          /\ cbuf[1] = 19
          /\ SubSeq(cbuf, 2, 20) = cmsg.prot
          /\ SubSeq(cbuf, 21, 28) = cmsg.reserved
          /\ SubSeq(cbuf, 29, 48) = cmsg.info_hash
          /\ SubSeq(cbuf, 49, 68) = cmsg.peer_id
    /\ cpc = "decoded_handshake" =>
          /\ cout = DecSome(cmsg)
          /\ cbuf = ctail

C10_HandshakeStep ==
    cpc' = "decoded_handshake" => cbuf' = Drop(cbuf, 68)

C10_HandshakeRoundTrip == []C10_HandshakeState /\ [][C10_HandshakeStep]_vars

\* A handshake with distinct info_hash and peer_id was decoded, with a byte
\* of the stream behind it.
C10_Witness ==
    /\ cpc = "decoded_handshake"
    /\ cout.kind = "Some"
    /\ cmsg.info_hash # cmsg.peer_id
    /\ cmsg.prot # PROTOCOL_STRING
    /\ cbuf = <<19>>

----------------------------------------------------------------------------
(* The decoders applied to what a peer sends: the read buffer holds bytes  *)
(* the peer chose, whole frames, parts of frames and malformed frames.     *)

\* Length of the frames and of the bytes behind the id in the frames drawn
MaxWire == 3

\* The largest length prefix of a frame of the protocol: a Block of 16 MiB
\* with its id, piece index and offset.
MaxMessageLen == 16 * 1024 * 1024 + 9

SeqsUpTo(S, n) == UNION {[1 .. k -> S] : k \in 0 .. n}

\* First payload bytes: every message id, and bytes that are none.
WireIds == 0 .. 9 \cup {20, 127}

\* What follows the length prefix: nothing, or an id byte and further bytes
\* (bytes that keep a u32 read from them an integer of the model).
WireBodies ==
    {<<>>} \cup {<<id>> \o rest : id \in WireIds, rest \in SeqsUpTo({0, 127}, MaxWire + 1)}

\* Frames and parts of frames whose length prefix is small.
WireFrames == {put_u32(len) \o body : len \in 0 .. MaxWire, body \in WireBodies}

\* Frames of the lengths the protocol gives to their type, alone and with
\* the start of a next frame behind them.
WireWholeFrames ==
    {encode(msg, FALSE) \o t :
        msg \in {Have(256), Request(BlockInfo(1, 0, 16384)),
                 Cancel(BlockInfo(1, 16384, 16384)), Block(1, 16384, <<255>>)},
        t \in {<<>>, <<0, 0, 0, 0>>}}

\* Buffers that end inside the length prefix.
WirePrefixes == {Take(put_u32(len), k) : len \in {0, 1, MaxMessageLen + 1}, k \in 0 .. 3}

\* Length prefixes at and beyond the largest frame of the protocol, up to
\* the largest whose frame length 4 + len is an integer of the model.
WireLongPrefixes ==
    {put_u32(len) \o t : len \in {MaxMessageLen, MaxMessageLen + 1, 2147483643},
                         t \in {<<>>, <<7>>}}

WireMessageBuffers == WireFrames \cup WireWholeFrames \cup WirePrefixes \cup WireLongPrefixes

\* The first n bytes of a stream that opens with the byte first, for every n
\* up to one byte beyond a whole handshake.
WireHandshakeBuffers ==
    {Take(<<first>> \o PROTOCOL_STRING \o Fill(50, 1, 1), n) :
        first \in {0, 18, 19, 20, 255},
        n \in 0 .. 1 + Len(PROTOCOL_STRING) + 8 + 20 + 20 + 1}

\* ctail is the read buffer as the latest call of a decoder found it, cbuf
\* the buffer as the call left it.
WireInit ==
    /\ cmsg = None
    /\ \/ cpc = "message_wire" /\ cbuf \in WireMessageBuffers
       \/ cpc = "handshake_wire" /\ cbuf \in WireHandshakeBuffers
    /\ ctail = cbuf
    /\ cout = None
    /\ PickerIdle
    /\ IoVecsIdle
    /\ OthersIdle

\* Decoder::decode(buf) of PeerCodec on the read buffer; the framed reader
\* calls it again after every message it returned.
DecodeWireMessage ==
    /\ \/ cpc = "message_wire"
       \/ cpc = "wire_message" /\ cout.kind = "Some"
    /\ LET r == decode(cbuf) IN
       /\ cout' = r.out
       /\ cbuf' = r.buf
    /\ ctail' = cbuf
    /\ cpc' = "wire_message"
    /\ UNCHANGED <<cmsg, notCodecVars>>

\* Decoder::decode(buf) of HandshakeCodec on the read buffer
DecodeWireHandshake ==
    /\ cpc = "handshake_wire"
    /\ LET r == HandshakeDecode(cbuf) IN
       /\ cout' = r.out
       /\ cbuf' = r.buf
    /\ ctail' = cbuf
    /\ cpc' = "wire_handshake"
    /\ UNCHANGED <<cmsg, notCodecVars>>

WireNext ==
    \/ DecodeWireMessage
    \/ DecodeWireHandshake

SpecWire == WireInit /\ [][WireNext]_vars

----------------------------------------------------------------------------
(* Properties of the decoders, checked under SpecWire *)

\* C11: the handshake decoder returns an error whenever the first byte of
\* the buffer is not 19, even when fewer than 68 bytes are buffered; when
\* the first byte is 19 and fewer than 68 bytes are buffered it returns
\* None and consumes nothing.
C11_HandshakePrefix ==
    (cpc = "wire_handshake" /\ ctail # <<>>) =>
        /\ ctail[1] # 19 => cout.kind = "Err"
        /\ (ctail[1] = 19 /\ Len(ctail) < 68) => (cout = DecNone /\ cbuf = ctail)

\* The decoder was given fewer than 68 bytes that do not start with 19.
C11_Witness ==
    /\ cpc = "wire_handshake"
    /\ Len(ctail) \in 1 .. 67
    /\ ctail[1] # 19
    /\ cout.kind = "Err"

\* C12: the message decoder returns None when fewer than 4 + length bytes
\* are buffered, and every call that returns a message removes exactly
\* 4 + length bytes from the buffer, whatever the type and the length.
C12_ConsumesFrame ==
    (cpc = "wire_message" /\ Len(ctail) >= 4) =>
        /\ Len(ctail) < 4 + get_u32(ctail) => (cout = DecNone /\ cbuf = ctail)
        /\ cout.kind = "Some" => cbuf = Drop(ctail, 4 + get_u32(ctail))

\* C13: a complete frame of non-zero length whose first payload byte is not
\* one of 0..8 makes the decoder return an error, never a message and never
\* None; a complete frame of length 0 is KeepAlive.
C13_UnknownId ==
    (cpc = "wire_message" /\ Len(ctail) >= 4 /\ Len(ctail) >= 4 + get_u32(ctail)) =>
        /\ (get_u32(ctail) # 0 /\ ctail[5] \notin 0 .. 8) => cout.kind = "Err"
        /\ get_u32(ctail) = 0 => cout = DecSome(KeepAlive)

\* A complete frame with the id 9 and bytes behind it was given to the decoder.
C13_Witness ==
    /\ cpc = "wire_message"
    /\ Len(ctail) >= 4
    /\ get_u32(ctail) = 2
    /\ Len(ctail) > 4 + get_u32(ctail)
    /\ ctail[5] = 9
    /\ cout.kind = "Err"

\* C16: a length prefix above 16 MiB + 9 is a protocol error: the decoder
\* returns an error as soon as the 4 bytes of the prefix are buffered.
C16_OversizedFrame ==
    (cpc = "wire_message" /\ Len(ctail) >= 4 /\ get_u32(ctail) > MaxMessageLen) =>
        cout.kind = "Err"

----------------------------------------------------------------------------
(* The Bitfield frame on the wire, checked under SpecCodec *)

\* ceil(n / 8)
CeilDiv8(n) == (n + 7) \div 8

\* Byte k (from 0) of a bitfield packed eight bits to the byte, the first
\* bit in the most significant place, the bits beyond its length zero.
PackedByte(bf, k) ==
    LET Bit(j) == IF 8 * k + j < BitLen(bf) /\ bf[8 * k + j] THEN 1 ELSE 0
    IN  128 * Bit(0) + 64 * Bit(1) + 32 * Bit(2) + 16 * Bit(3)
        + 8 * Bit(4) + 4 * Bit(5) + 2 * Bit(6) + Bit(7)

\* C14: encoding a Bitfield of piece_count bits writes exactly
\* ceil(piece_count / 8) payload bytes behind the id, the bits packed
\* most significant first and the padding bits of the last byte zero.
C14_BitfieldPayload ==
    (cpc = "encoded_message" /\ cmsg.type = "Bitfield" /\ ctail = <<>>) =>
        LET n == BitLen(cmsg.bits)
            payload == Drop(cbuf, 5)
        IN  /\ get_u32(cbuf) = 1 + CeilDiv8(n)
            /\ Len(payload) = CeilDiv8(n)
            /\ \A k \in 0 .. CeilDiv8(n) - 1 : payload[k + 1] = PackedByte(cmsg.bits, k)

----------------------------------------------------------------------------
(* A peer's Bitfield frame on its way to the picker: the frame is decoded  *)
(* and the session gives the bits to register_peer_pieces. The session is  *)
(* not part of the sources at hand; it either passes the decoded bitfield  *)
(* on as it is or first cuts it to piece_count bits.                       *)

\* Payload bytes of the one-byte Bitfield frames peers send: bits set below
\* and beyond piece_count.
SessionBytes == {0, 1, 2, 3, 32, 64, 96, 127, 128, 129, 160, 192, 224, 255}

\* Bit i of a payload byte, the most significant bit first
WireBit(byte, i) == (byte \div (2 ^ (7 - i))) % 2 = 1

\* The first n bits of a bitfield
Truncate(bf, n) == [i \in 0 .. n - 1 |-> bf[i]]

SessionInit ==
    /\ \E n \in 1 .. MaxPieces : \E own \in BitfieldsOfLen(n) : picker = new(own)
    /\ ret = [op |-> "new"]
    /\ handed = [i \in DOMAIN picker.own_pieces |-> <<>>]
    /\ cmsg = None
    /\ \E byte \in SessionBytes : cbuf = put_u32(2) \o <<MessageId("Bitfield"), byte>>
    /\ ctail = cbuf
    /\ cout = None
    /\ cpc = "session_wire"
    /\ IoVecsIdle
    /\ OthersIdle

\* Decoder::decode(buf) of PeerCodec on the peer's frame
SessionDecode ==
    /\ cpc = "session_wire"
    /\ LET r == decode(cbuf) IN
       /\ cout' = r.out
       /\ cbuf' = r.buf
    /\ cpc' = "session_decoded"
    /\ UNCHANGED <<cmsg, ctail, pickerVars, ioVars, disk, engine, tracker>>

\* The session's handling of Bitfield: the decoded bits go to the picker.
HandleBitfield ==
    /\ cpc = "session_decoded"
    /\ cout.kind = "Some"
    /\ cout.item.type = "Bitfield"
    /\ LET r == register_peer_pieces(picker, cout.item.bits) IN
       /\ picker' = r.self
       /\ ret' = [op |-> "register_peer_pieces", arg |-> cout.item.bits,
                  result |-> r.result, panicked |-> r.panicked]
    /\ cpc' = "session_registered"
    /\ UNCHANGED <<handed, cmsg, cbuf, ctail, cout, ioVars, disk, engine, tracker>>

\* The session's handling of Bitfield when it drops the bits beyond
\* piece_count before it calls the picker.
HandleBitfieldTruncated ==
    /\ cpc = "session_decoded"
    /\ cout.kind = "Some"
    /\ cout.item.type = "Bitfield"
    /\ BitLen(cout.item.bits) >= piece_count(picker)
    /\ LET bits == Truncate(cout.item.bits, piece_count(picker))
           r == register_peer_pieces(picker, bits)
       IN  /\ picker' = r.self
           /\ ret' = [op |-> "register_peer_pieces", arg |-> bits,
                      result |-> r.result, panicked |-> r.panicked]
    /\ cpc' = "session_registered"
    /\ UNCHANGED <<handed, cmsg, cbuf, ctail, cout, ioVars, disk, engine, tracker>>

SessionNext ==
    \/ SessionDecode
    \/ HandleBitfield
    \/ HandleBitfieldTruncated

SpecSession == SessionInit /\ [][SessionNext]_vars

\* C15: a received Bitfield with bits set beyond piece_count is accepted:
\* the decoder returns the message, register_peer_pieces does not panic on
\* the padded length, and the frequencies are raised for exactly the pieces
\* below piece_count whose bit is set on the wire.
C15_PaddedBitfieldAccepted ==
    /\ cpc = "session_decoded" => (cout.kind = "Some" /\ cout.item.type = "Bitfield")
    /\ cpc = "session_registered" =>
          /\ ~ret.panicked
          /\ \A i \in DOMAIN picker.pieces :
                picker.pieces[i].frequency = (IF WireBit(ctail[6], i) THEN 1 ELSE 0)

----------------------------------------------------------------------------
(* IoVecs (iovecs.rs): a view of a list of byte buffers, split at a byte    *)
(* count. A buffer is a sequence of bytes, a list of buffers a sequence of *)
(* buffers; the split position pos counts buffers from 0.                  *)

\* Number of buffers in a list and of bytes in a buffer
MaxBufs == 2
MaxBufLen == 2

RECURSIVE Flatten(_)
\* The bytes of a list of buffers, in order
Flatten(bufs) ==
    IF bufs = <<>> THEN <<>> ELSE bufs[1] \o Flatten(Drop(bufs, 1))

\* Sum of the lengths of the buffers of a list
TotalLen(bufs) == Len(Flatten(bufs))

\* IoVecs::unbounded(bufs)
unbounded(bufs) == [bufs |-> bufs, split |-> None]

RECURSIVE BoundedLoop(_, _, _, _)
\* The loop of IoVecs::bounded from buffer i on, acc being the length of
\* the buffers before it
BoundedLoop(bufs, max_len, i, acc) ==
    IF i = Len(bufs) THEN unbounded(bufs)
    ELSE LET whole == bufs[i + 1]
             len == Len(whole)
         IN  IF acc + len >= max_len
             THEN IF acc + len = max_len
                  THEN IF i + 1 = Len(bufs)
                       THEN unbounded(bufs)
                       ELSE [bufs |-> bufs, split |-> Some([pos |-> i, second |-> None])]
                  ELSE LET cut == max_len - acc
                           first == Take(whole, cut)
                           second == Drop(whole, cut)
                       IN  [bufs |-> [bufs EXCEPT ![i + 1] = first],
                            split |-> Some([pos |-> i, second |-> Some(second)])]
             ELSE BoundedLoop(bufs, max_len, i + 1, acc + len)

\* IoVecs::bounded(bufs, max_len): the view, or the panic of its assert
bounded_WholeBlocks(bufs, max_len) == [panicked |-> FALSE, self |-> unbounded(bufs)]
bounded(bufs, max_len) ==
    IF max_len = 0 THEN [panicked |-> TRUE, self |-> unbounded(bufs)]
    ELSE [panicked |-> FALSE, self |-> BoundedLoop(bufs, max_len, 0, 0)]

\* IoVecs::as_slice(&self): &self.bufs[..=pos] panics when pos is not an
\* index of bufs
as_slice_WithoutSplitBuffer(self) ==
    IF self.split.some
    THEN IF self.split.value.pos >= Len(self.bufs)
         THEN [panicked |-> TRUE, slice |-> <<>>]
         ELSE [panicked |-> FALSE, slice |-> Take(self.bufs, self.split.value.pos)]
    ELSE [panicked |-> FALSE, slice |-> self.bufs]
as_slice(self) ==
    IF self.split.some
    THEN IF self.split.value.pos >= Len(self.bufs)
         THEN [panicked |-> TRUE, slice |-> <<>>]
         ELSE [panicked |-> FALSE, slice |-> Take(self.bufs, self.split.value.pos + 1)]
    ELSE [panicked |-> FALSE, slice |-> self.bufs]

RECURSIVE AdvanceCount(_, _, _, _)
\* The counting loop of IoVecs::advance over the head: how many buffers to
\* drop and how many bytes they hold
AdvanceCount(head, n, dropped, removed) ==
    IF dropped = Len(head) THEN [dropped |-> dropped, removed |-> removed]
    ELSE LET len == Len(head[dropped + 1]) IN
         IF removed + len > n THEN [dropped |-> dropped, removed |-> removed]
         ELSE AdvanceCount(head, n, dropped + 1, removed + len)

\* usize::saturating_sub
SaturatingSub(x, y) == IF x < y THEN 0 ELSE x - y

\* IoVecs::advance(&mut self, n): the view it leaves, or a panic
advance(self, n) ==
    IF n = 0 THEN [panicked |-> FALSE, self |-> self]
    ELSE IF as_slice(self).panicked THEN [panicked |-> TRUE, self |-> self]
    ELSE LET c == AdvanceCount(as_slice(self).slice, n, 0, 0)
             bufs == Drop(self.bufs, c.dropped)
             split == IF self.split.some
                      THEN Some([self.split.value EXCEPT
                                    !.pos = SaturatingSub(@, c.dropped)])
                      ELSE None
             left == n - c.removed
         IN  IF left > 0 /\ bufs # <<>>
             THEN IF left > Len(bufs[1])
                  THEN [panicked |-> TRUE, self |-> self]
                  ELSE [panicked |-> FALSE,
                        self |-> [bufs |-> [bufs EXCEPT ![1] = Drop(@, left)],
                                  split |-> split]]
             ELSE [panicked |-> FALSE, self |-> [bufs |-> bufs, split |-> split]]

\* IoVecs::into_tail(self): the buffers behind the split, or the panic of
\* an index beyond bufs
into_tail_SecondNotRestored(self) ==
    IF self.split.some
    THEN LET pos == self.split.value.pos IN
         IF pos + 1 > Len(self.bufs) THEN [panicked |-> TRUE, tail |-> <<>>]
         ELSE [panicked |-> FALSE, tail |-> Drop(self.bufs, pos + 1)]
    ELSE [panicked |-> FALSE, tail |-> <<>>]
into_tail(self) ==
    IF self.split.some
    THEN LET pos == self.split.value.pos
             second == self.split.value.second
         IN  IF second.some
             THEN IF pos >= Len(self.bufs) THEN [panicked |-> TRUE, tail |-> <<>>]
                  ELSE [panicked |-> FALSE,
                        tail |-> Drop([self.bufs EXCEPT ![pos + 1] = second.value], pos)]
             ELSE IF pos + 1 > Len(self.bufs) THEN [panicked |-> TRUE, tail |-> <<>>]
                  ELSE [panicked |-> FALSE, tail |-> Drop(self.bufs, pos + 1)]
    ELSE [panicked |-> FALSE, tail |-> <<>>]

----------------------------------------------------------------------------
(* A view at work: the caller builds a view of its buffers, advances it as *)
(* bytes are written, and takes the tail.                                  *)

RECURSIVE SumSeq(_)
SumSeq(s) == IF s = <<>> THEN 0 ELSE s[1] + SumSeq(Drop(s, 1))

\* Buffers of the lengths lens, holding the bytes 1, 2, 3, ... in order, so
\* that every byte of a list tells its place
NumberedBufs(lens) ==
    [i \in 1 .. Len(lens) |->
        [j \in 1 .. lens[i] |-> SumSeq(Take(lens, i - 1)) + j]]

\* Every list of up to MaxBufs buffers of up to MaxBufLen bytes, empty
\* buffers included
BufLists == {NumberedBufs(lens) : lens \in SeqsUpTo(0 .. MaxBufLen, MaxBufs)}

IoVecsInit ==
    /\ vorig \in BufLists
    /\ vmax = None
    /\ view = None
    /\ vadv = 0
    /\ vout = None
    /\ vpc = "bufs"
    /\ PickerIdle
    /\ CodecIdle
    /\ OthersIdle

\* IoVecs::bounded(&mut bufs, max_len)
Bounded(max_len) ==
    /\ vpc = "bufs"
    /\ LET r == bounded(vorig, max_len) IN
       /\ view' = r.self
       /\ vout' = [op |-> "bounded", panicked |-> r.panicked]
       /\ vpc' = IF r.panicked THEN "panicked" ELSE "view"
    /\ vmax' = Some(max_len)
    /\ UNCHANGED <<vorig, vadv, notIoVars>>

\* IoVecs::unbounded(&mut bufs)
Unbounded ==
    /\ vpc = "bufs"
    /\ view' = unbounded(vorig)
    /\ vout' = [op |-> "unbounded", panicked |-> FALSE]
    /\ vpc' = "view"
    /\ UNCHANGED <<vorig, vmax, vadv, notIoVars>>

\* view.advance(n); avail is the length of the head the call finds. The
\* amounts of the calls together go up to one byte beyond all the bytes.
Advance(n) ==
    /\ vpc = "view"
    /\ vadv + n <= TotalLen(vorig) + 1
    /\ LET r == advance(view, n)
           head == as_slice(view)
       IN  /\ view' = r.self
           /\ vout' = [op |-> "advance", n |-> n, panicked |-> r.panicked,
                       avail |-> IF head.panicked THEN 0 ELSE TotalLen(head.slice)]
           /\ vadv' = IF r.panicked THEN vadv ELSE vadv + n
           /\ vpc' = IF r.panicked THEN "panicked" ELSE "view"
    /\ UNCHANGED <<vorig, vmax, notIoVars>>

\* view.into_tail(); view keeps the struct as the call found it
IntoTail ==
    /\ vpc = "view"
    /\ LET r == into_tail(view) IN
       /\ vout' = [op |-> "into_tail", panicked |-> r.panicked, tail |-> r.tail]
       /\ vpc' = IF r.panicked THEN "panicked" ELSE "tail"
    /\ UNCHANGED <<vorig, vmax, view, vadv, notIoVars>>

IoVecsNext ==
    \/ \E max_len \in 0 .. TotalLen(vorig) + 1 : Bounded(max_len)
    \/ Unbounded
    \/ \E n \in 0 .. TotalLen(vorig) + 1 : Advance(n)
    \/ IntoTail

SpecIoVecs == IoVecsInit /\ [][IoVecsNext]_vars

----------------------------------------------------------------------------
(* Properties of IoVecs, checked under SpecIoVecs *)

\* The bytes of the caller's buffers and the byte count the view was split at
OrigBytes == Flatten(vorig)
SplitPoint ==
    IF vmax.some /\ vmax.value < Len(OrigBytes) THEN vmax.value ELSE Len(OrigBytes)

\* C17: for buffers of T bytes in total and 0 < max_len <= T, the lengths
\* of the buffers of bounded(bufs, max_len).as_slice() sum to exactly
\* max_len, wherever the split falls and with empty buffers in the list.
C17_HeadLength ==
    (vpc = "view" /\ vout.op = "bounded" /\ vmax.value <= Len(OrigBytes)) =>
        /\ ~as_slice(view).panicked
        /\ TotalLen(as_slice(view).slice) = vmax.value

\* A view was split inside the second buffer, behind an empty first one.
C17_Witness ==
    /\ vpc = "view"
    /\ vout.op = "bounded"
    /\ Len(vorig) = 2
    /\ vorig[1] = <<>>
    /\ view.split.some
    /\ view.split.value.second.some
    /\ TotalLen(as_slice(view).slice) = 1

\* C18: with no advance in between, the head holds the first n bytes of
\* the buffers and into_tail() the other T - n: no bytes when n = T, the
\* buffers behind the split when it falls between two buffers, the second
\* half of the split buffer and the buffers behind it when it falls inside
\* one; head and tail together are the original bytes.
C18_HeadAndTail ==
    (vpc = "tail" /\ vadv = 0 /\ vmax.some /\ vmax.value <= Len(OrigBytes)) =>
        LET n == vmax.value
            head == as_slice(view).slice
            tail == vout.tail
        IN  /\ Flatten(head) = Take(OrigBytes, n)
            /\ Flatten(tail) = Drop(OrigBytes, n)
            /\ Flatten(head) \o Flatten(tail) = OrigBytes
            /\ \A k \in 1 .. Len(vorig) :
                  /\ TotalLen(Take(vorig, k)) = n /\ TotalLen(Take(vorig, k - 1)) < n
                        => tail = Drop(vorig, k)
                  /\ TotalLen(Take(vorig, k - 1)) < n /\ n < TotalLen(Take(vorig, k))
                        => /\ tail[1] = Drop(vorig[k], n - TotalLen(Take(vorig, k - 1)))
                           /\ Drop(tail, 1) = Drop(vorig, k)

\* The tail of a view split inside its first buffer was taken.
C18_Witness ==
    /\ vpc = "tail"
    /\ vadv = 0
    /\ vmax = Some(1)
    /\ Len(vorig) = 2
    /\ Len(vorig[1]) = 2
    /\ Len(vorig[2]) = 2
    /\ vout.tail = <<<<2>>, <<3, 4>>>>

\* C19: after advance calls whose amounts sum to at most the length of the
\* head, and to exactly that length too, into_tail() returns exactly the
\* bytes behind the original split point.
C19_TailAfterAdvance ==
    /\ (vpc = "panicked" /\ vout.op = "into_tail" /\ vmax.some /\ vmax.value > 0)
          => vadv > SplitPoint
    /\ (vpc = "tail" /\ vmax.some /\ vadv <= SplitPoint)
          => Flatten(vout.tail) = Drop(OrigBytes, SplitPoint)

\* The bytes a view holds: those of its buffers and of the saved second half
ViewBytes(self) ==
    {Flatten(self.bufs)[i] : i \in 1 .. TotalLen(self.bufs)}
    \cup (IF self.split.some /\ self.split.value.second.some
          THEN {self.split.value.second.value[i] :
                    i \in 1 .. Len(self.split.value.second.value)}
          ELSE {})

\* C20: advance(n) panics whenever n exceeds the bytes in the head, on
\* split and on unbounded views, and no call consumes a byte of the tail.
C20_AdvanceBeyondHead ==
    (vout # None /\ vout.op = "advance") =>
        /\ vout.n > vout.avail => vout.panicked
        /\ (SplitPoint + 1) .. Len(OrigBytes) \subseteq ViewBytes(view)

----------------------------------------------------------------------------
(* Further properties of the picker, checked under Spec *)

\* C29: in every reachable state all_pieces_picked() is true iff every
\* piece is owned or pending, that is iff free_count is 0, and whenever it
\* is true pick_piece() returns None.
C29_AllPicked ==
    /\ all_pieces_picked(picker) <=> (picker.free_count = 0)
    /\ all_pieces_picked(picker) <=>
          \A i \in Indices : picker.own_pieces[i] \/ picker.pieces[i].is_pending
    /\ all_pieces_picked(picker) => pick_piece(picker).result = None

\* Every piece is picked while one is still being downloaded and has peers.
C29_Witness ==
    /\ all_pieces_picked(picker)
    /\ piece_count(picker) = 2
    /\ \E i \in Indices : picker.pieces[i].is_pending /\ picker.pieces[i].frequency > 0
    /\ \E i \in Indices : picker.own_pieces[i]

----------------------------------------------------------------------------
(* Further properties of IoVecs, checked under SpecIoVecs *)

\* C30: for any view and any n from 0 to the length of the head, after
\* advance(n) the head as_slice() returns holds the former head bytes
\* without the first n, and is n bytes shorter.
C30_AdvanceStep ==
    (vpc = "view" /\ vout'.op = "advance" /\ ~as_slice(view).panicked
        /\ vout'.n <= TotalLen(as_slice(view).slice)) =>
        /\ ~vout'.panicked
        /\ ~as_slice(view').panicked
        /\ Flatten(as_slice(view').slice) = Drop(Flatten(as_slice(view).slice), vout'.n)
        /\ TotalLen(as_slice(view').slice) = TotalLen(as_slice(view).slice) - vout'.n

C30_AdvanceShortensHead == [][C30_AdvanceStep]_vars

----------------------------------------------------------------------------
(* TorrentFile (disk/io/file.rs): a piece held in blocks is written to its *)
(* file slices with pwritev and read back with preadv. Every system call   *)
(* may transfer fewer bytes than it was given.                             *)

\* Largest offset of a piece in its first file, and the number of system
\* calls of a behaviour that transfer less than they could
MaxOffset == 1
MaxShort == 1
\* Number of bytes a file found on disk holds behind the end of the piece
MaxExtra == 1

Min(a, b) == IF a < b THEN a ELSE b

\* The offset TorrentFile::write passes to pwritev after total_written bytes
write_offset(file_slice, total_written) == file_slice.offset

\* The offset TorrentFile::read passes to preadv after total_read bytes
read_offset_Unadjusted(file_slice, total_read) == file_slice.offset
read_offset(file_slice, total_read) == file_slice.offset + total_read

\* pwritev(fd, bytes, offset): the file after the bytes were written at
\* offset, a hole before them reading as zeros
pwritev(file, bytes, offset) ==
    LET newlen == IF offset + Len(bytes) > Len(file) THEN offset + Len(bytes) ELSE Len(file)
    IN  [p \in 1 .. newlen |->
            IF p > offset /\ p <= offset + Len(bytes) THEN bytes[p - offset]
            ELSE IF p <= Len(file) THEN file[p] ELSE 0]

\* preadv(fd, bufs, offset): how many bytes a call can return at most, the
\* capacity of the buffers or what the file holds from offset on
preadv_max(file, cap, offset) ==
    IF offset >= Len(file) THEN 0 ELSE Min(cap, Len(file) - offset)

\* iovecs::advance(bufs, n), the helper for mutable buffers: the buffers
\* left, or the panic of its assert
advance_mut(bufs, n) ==
    IF n = 0 THEN [panicked |-> FALSE, rest |-> bufs]
    ELSE LET c == AdvanceCount(bufs, n, 0, 0)
             rest == Drop(bufs, c.dropped)
             left == n - c.removed
         IN  IF left > 0 /\ rest # <<>>
             THEN IF left > Len(rest[1])
                  THEN [panicked |-> TRUE, rest |-> rest]
                  ELSE [panicked |-> FALSE, rest |-> [rest EXCEPT ![1] = Drop(@, left)]]
             ELSE [panicked |-> FALSE, rest |-> rest]

\* The blocks of a piece: whole blocks, the last one possibly short
DiskBlocks ==
    {NumberedBufs(lens) :
        lens \in {Repeat(MaxBufLen, k) : k \in 1 .. MaxBufs}
                 \cup {Append(Repeat(MaxBufLen, k - 1), 1) : k \in 1 .. MaxBufs}}

\* The file slices of a piece of len bytes that starts at offset in file A
\* and has first bytes in A: when the piece is longer, A ends there and the
\* piece goes on at the start of file B.
FileSlices(offset, first, len) ==
    <<[file |-> "A", offset |-> offset, len |-> first]>>
    \o (IF first < len THEN <<[file |-> "B", offset |-> 0, len |-> len - first]>> ELSE <<>>)

\* The files as TorrentFile::new opens them (create, no truncate): new and
\* empty, or found on disk holding extra bytes behind the slices of the
\* piece
OpenedFiles(slices, extra) ==
    [f \in {"A", "B"} |->
        IF extra = 0 \/ \A i \in 1 .. Len(slices) : slices[i].file # f THEN <<>>
        ELSE LET sl == CHOOSE sl \in {slices[i] : i \in 1 .. Len(slices)} : sl.file = f
             IN  [p \in 1 .. sl.offset + sl.len + extra |-> 255]]

DiskInit ==
    /\ \E blocks \in DiskBlocks, offset \in 0 .. MaxOffset, extra \in 0 .. MaxExtra :
       \E first \in 1 .. TotalLen(blocks) :
          disk = [files  |-> OpenedFiles(FileSlices(offset, first, TotalLen(blocks)), extra),
                  blocks |-> blocks,
                  slices |-> FileSlices(offset, first, TotalLen(blocks)),
                  phase  |-> "write",
                  written |-> FALSE,
                  next   |-> 1,
                  rest   |-> blocks,
                  data   |-> [p \in 1 .. TotalLen(blocks) |-> 0],
                  call   |-> None,
                  log    |-> {},
                  short  |-> 0,
                  out    |-> None,
                  pc     |-> "start"]
    /\ PickerIdle
    /\ CodecIdle
    /\ IoVecsIdle
    /\ EngineIdle
    /\ TrackerIdle


\* A call of write or read ended in a panic.
DiskPanic(d, op) == [d EXCEPT !.pc = "failed", !.out = [op |-> op, result |-> "panic"]]

\* TorrentFile::write returns Ok(iovecs.into_tail()): the tail is what the
\* disk task hands to the write of the next file slice.
WriteReturn(d, iovecs) ==
    LET r == into_tail(iovecs) IN
    IF r.panicked THEN DiskPanic(d, "write")
    ELSE [d EXCEPT !.rest = r.tail, !.next = @ + 1, !.pc = "written",
                   !.out = [op |-> "write", result |-> "Ok"]]

\* The head of the while loop of TorrentFile::write
WriteLoop(d, iovecs) ==
    IF as_slice(iovecs).panicked THEN DiskPanic(d, "write")
    ELSE IF as_slice(iovecs).slice = <<>> THEN WriteReturn(d, iovecs)
    ELSE [d EXCEPT !.call.iovecs = iovecs, !.pc = "writing"]

\* TorrentFile::write(file_slice, blocks) is called for the next file slice
\* of the piece and reaches its first pwritev.
WriteBegin ==
    /\ disk # None
    /\ disk.phase = "write"
    /\ disk.pc \in {"start", "written"}
    /\ disk.next <= Len(disk.slices)
    /\ LET file_slice == disk.slices[disk.next]
           b == bounded(disk.rest, file_slice.len)
           d == [disk EXCEPT !.log = {},
                             !.call = [op |-> "write", slice |-> file_slice,
                                       iovecs |-> b.self,
                                       head |-> Flatten(as_slice(b.self).slice),
                                       blocks |-> disk.rest,
                                       total |-> 0, calls |-> 0, sys |-> None]]
       IN  disk' = IF b.panicked THEN DiskPanic(disk, "write") ELSE WriteLoop(d, b.self)
    /\ UNCHANGED notDiskVars

\* pwritev returns n, and the iteration of the loop runs to the next
\* pwritev or to the return of write. The call may transfer nothing; calls
\* tells one system call from the next.
Pwritev(n) ==
    /\ disk # None
    /\ disk.pc = "writing"
    /\ LET c == disk.call
           head == Flatten(as_slice(c.iovecs).slice)
           offset == write_offset(c.slice, c.total)
           d == [disk EXCEPT
                    !.files[c.slice.file] = pwritev(@, Take(head, n), offset),
                    !.log = @ \cup {<<offset + k - 1, head[k]>> : k \in 1 .. n},
                    !.call.total = @ + n,
                    !.call.calls = (@ + 1) % 2,
                    !.call.sys = Some([offset |-> offset, n |-> n, before |-> c.total]),
                    !.short = IF 0 < n /\ n < Len(head) THEN @ + 1 ELSE @]
           a == advance(c.iovecs, n)
       IN  /\ n \in 0 .. Len(head)
           /\ (0 < n /\ n < Len(head)) => disk.short < MaxShort
           /\ disk' = IF c.total + n = c.slice.len THEN WriteReturn(d, c.iovecs)
                      ELSE IF a.panicked THEN DiskPanic(d, "write")
                      ELSE WriteLoop(d, a.self)
    /\ UNCHANGED notDiskVars

\* TorrentFile::read returns Ok(bufs): the buffers left for the next slice
ReadReturn(d, bufs) ==
    [d EXCEPT !.rest = bufs, !.next = @ + 1, !.pc = "read_done",
              !.out = [op |-> "read", result |-> "Ok"]]

\* The head of the while loop of TorrentFile::read
ReadLoop(d, bufs) ==
    IF bufs # <<>> /\ d.call.total < d.call.slice.len
    THEN [d EXCEPT !.call.bufs = bufs, !.pc = "reading"]
    ELSE ReadReturn(d, bufs)

\* TorrentFile::read(file_slice, io_vecs) is called for the next file slice
\* of the piece; the first call gets buffers of the lengths of the blocks.
\* A buffer is given as the places of the piece its bytes are read into.
ReadBegin ==
    /\ disk # None
    /\ \/ disk.phase = "write" /\ disk.pc = "start"
       \/ disk.phase = "write" /\ disk.pc = "written" /\ disk.next > Len(disk.slices)
       \/ disk.phase = "read" /\ disk.pc = "read_done" /\ disk.next <= Len(disk.slices)
    /\ LET d0 == IF disk.phase = "write"
                 THEN [disk EXCEPT !.phase = "read", !.written = (disk.pc = "written"),
                                   !.next = 1, !.rest = disk.blocks]
                 ELSE disk
           d == [d0 EXCEPT !.log = {},
                           !.call = [op |-> "read", slice |-> d0.slices[d0.next],
                                     bufs |-> d0.rest, io_vecs |-> d0.rest,
                                     total |-> 0, sys |-> None]]
       IN  disk' = ReadLoop(d, d0.rest)
    /\ UNCHANGED notDiskVars

\* preadv returns n, and the iteration of the loop runs to the next preadv
\* or to the return of read.
Preadv(n) ==
    /\ disk # None
    /\ disk.pc = "reading"
    /\ LET c == disk.call
           file == disk.files[c.slice.file]
           offset == read_offset(c.slice, c.total)
           most == preadv_max(file, TotalLen(c.bufs), offset)
           places == Flatten(c.bufs)
           sys == Some([offset |-> offset, n |-> n, before |-> c.total])
           d == [disk EXCEPT
                    !.data = [p \in DOMAIN @ |->
                                 IF \E k \in 1 .. n : places[k] = p
                                 THEN file[offset + (CHOOSE k \in 1 .. n : places[k] = p)]
                                 ELSE @[p]],
                    !.log = @ \cup {<<places[k], offset + k - 1>> : k \in 1 .. n},
                    !.call.total = @ + n,
                    !.call.sys = sys,
                    !.short = IF n < most THEN @ + 1 ELSE @]
           a == advance_mut(c.bufs, n)
       IN  /\ n \in (IF most = 0 THEN {0} ELSE 1 .. most)
           /\ n < most => disk.short < MaxShort
           /\ disk' = IF n = 0
                      THEN [disk EXCEPT !.call.sys = sys, !.pc = "failed",
                                        !.out = [op |-> "read", result |-> "MissingData"]]
                      ELSE IF a.panicked THEN DiskPanic(d, "read")
                      ELSE ReadLoop(d, a.rest)
    /\ UNCHANGED notDiskVars

DiskNext ==
    \/ WriteBegin
    \/ \E n \in 0 .. MaxBufs * MaxBufLen : Pwritev(n)
    \/ ReadBegin
    \/ \E n \in 0 .. MaxBufs * MaxBufLen : Preadv(n)

SpecDisk == DiskInit /\ [][DiskNext]_vars

\* A system call that was issued returns.
DiskFairness ==
    /\ WF_vars(\E n \in 0 .. MaxBufs * MaxBufLen : Pwritev(n))
    /\ WF_vars(\E n \in 0 .. MaxBufs * MaxBufLen : Preadv(n))

SpecDiskLive == DiskInit /\ [][DiskNext]_vars /\ DiskFairness

----------------------------------------------------------------------------
(* Properties of the file I/O, checked under SpecDisk *)

\* C21: when a pwritev call writes fewer bytes than remain the next call
\* is issued at the adjusted offset: over all the calls of one write, byte
\* k of the bounded head is written at file position file_slice.offset + k
\* and nowhere else.
C21_WriteAtOffset ==
    (disk.pc \in {"writing", "written"}) =>
        LET c == disk.call
            expected == {<<c.slice.offset + k, c.head[k + 1]>> : k \in 0 .. c.slice.len - 1}
        IN  /\ disk.log \subseteq expected
            /\ disk.pc = "written" => disk.log = expected

\* C22: read returns MissingData whenever preadv returns 0 while fewer than
\* file_slice.len bytes are read and buffers remain, and every preadv is
\* issued at file_slice.offset + total_read, after a short read too.
C22_ReadLoop ==
    (disk.pc \in {"reading", "read_done", "failed"} /\ disk.call.op = "read"
        /\ disk.call.sys.some) =>
        LET c == disk.call IN
        /\ c.sys.value.offset = c.slice.offset + c.sys.value.before
        /\ c.sys.value.n = 0 <=>
              (disk.pc = "failed" /\ disk.out = [op |-> "read", result |-> "MissingData"])

\* A preadv was issued behind a short read of a slice that does not start
\* at the beginning of its file.
C22_Witness ==
    /\ disk.pc \in {"reading", "read_done"}
    /\ disk.call.op = "read"
    /\ disk.call.sys.some
    /\ disk.call.sys.value.before > 0
    /\ disk.call.sys.value.n > 0
    /\ disk.call.slice.offset > 0
    /\ disk.written

\* C23: a piece written slice by slice, each write fed the tail the one
\* before returned, and read back slice by slice into buffers of the
\* length of the piece, comes back as the bytes written.
C23_RoundTrip ==
    /\ disk.pc = "failed" => disk.out.result # "panic"
    /\ (disk.pc = "failed" /\ disk.written) => disk.out.op # "read"
    /\ (disk.pc = "read_done" /\ disk.written /\ disk.next > Len(disk.slices))
          => disk.data = Flatten(disk.blocks)

----------------------------------------------------------------------------
(* The engine (engine.rs): the engine task receives the user's commands    *)
(* and the disk task's allocation results, spawns a task per torrent, and  *)
(* on Shutdown stops the torrents and then the disk task. The torrent and  *)
(* disk tasks themselves are not part of the sources at hand: a torrent    *)
(* task ends when it receives Shutdown or on its own, the disk task        *)
(* answers NewTorrent with an allocation result and ends on Shutdown.      *)

\* Number of torrents the user creates
MaxTorrents == 2

TorrentIds == 1 .. MaxTorrents

\* Engine::new and spawn: the engine task awaits its first command, the
\* disk task runs, no torrent exists.
EngineNew ==
    [cmd_q       |-> <<>>,     \* cmd_rx: commands sent and not yet received
     disk_q      |-> <<>>,     \* disk_tx: commands sent to the disk task
     torrents    |-> {},       \* keys of the torrents map
     sent        |-> {},       \* torrents the engine executed tx.send(Shutdown) for
     send_failed |-> {},       \* those of them whose channel was closed
     joined      |-> {},       \* torrents whose join_handle was awaited to the end
     task        |-> [id \in TorrentIds |-> "none"],
     torrent_q   |-> {},       \* torrents with a Shutdown in their channel
     disk_task   |-> "running",
     disk_joined |-> FALSE,
     failed      |-> {},       \* ids whose failed allocation the engine received
     created     |-> {},       \* ids EngineHandle::create_torrent returned Ok for
     next_id     |-> 1,
     user        |-> "handle", \* the user holds the EngineHandle
     pc          |-> "recv",   \* where the engine task is
     result      |-> None]

\* Engine::create_torrent(id, params): NewTorrent goes to the disk task, the
\* torrent task is spawned and the entry inserted.
create_torrent(e, id) ==
    IF e.disk_task = "done"
    THEN [e EXCEPT !.pc = "returned", !.result = Some("Err")]
    ELSE [e EXCEPT !.disk_q = Append(@, [type |-> "NewTorrent", id |-> id]),
                   !.task[id] = "running",
                   !.torrents = @ \cup {id}]

\* The TorrentAllocation arm of Engine::run: the result is logged.
torrent_allocation(e, id, result) ==
    IF result = "Err" THEN [e EXCEPT !.failed = @ \cup {id}] ELSE e

\* The end of Engine::shutdown, behind the joins of the torrents: Shutdown
\* goes to the disk task and its handle is awaited.
shutdown_disk(e) ==
    IF e.disk_task = "done"
    THEN [e EXCEPT !.pc = "returned", !.result = Some("Err")]
    ELSE [e EXCEPT !.disk_q = Append(@, [type |-> "Shutdown"]), !.pc = "join_disk"]

\* Engine::shutdown up to its first await: Shutdown is sent to every
\* torrent (a send to a task that has ended fails and is ignored), then the
\* handles are awaited, and with no torrent the disk is shut down at once.
shutdown_DiskBeforeJoins(e) ==
    LET e1 == [e EXCEPT !.sent = e.torrents,
                        !.send_failed = {id \in e.torrents : e.task[id] # "running"},
                        !.torrent_q = @ \cup {id \in e.torrents : e.task[id] = "running"}]
    IN  [shutdown_disk(e1) EXCEPT !.pc = IF e.torrents = {} THEN @ ELSE "join_torrents"]
shutdown_SendsToOne(e) ==
    LET one == {id \in e.torrents : \A other \in e.torrents : id <= other}
        e1 == [e EXCEPT !.sent = one,
                        !.send_failed = {id \in one : e.task[id] # "running"},
                        !.torrent_q = @ \cup {id \in one : e.task[id] = "running"}]
    IN  IF e.torrents = {} THEN shutdown_disk(e1) ELSE [e1 EXCEPT !.pc = "join_torrents"]
shutdown_SendFailureReturns(e) ==
    LET e1 == [e EXCEPT !.sent = e.torrents,
                        !.send_failed = {id \in e.torrents : e.task[id] # "running"},
                        !.torrent_q = @ \cup {id \in e.torrents : e.task[id] = "running"}]
    IN  IF e1.send_failed # {} THEN [e1 EXCEPT !.pc = "returned", !.result = Some("Err")]
        ELSE IF e.torrents = {} THEN shutdown_disk(e1)
        ELSE [e1 EXCEPT !.pc = "join_torrents"]
shutdown_NoBroadcast(e) ==
    IF e.torrents = {} THEN shutdown_disk(e) ELSE [e EXCEPT !.pc = "join_torrents"]
shutdown(e) ==
    LET e1 == [e EXCEPT !.sent = e.torrents,
                        !.send_failed = {id \in e.torrents : e.task[id] # "running"},
                        !.torrent_q = @ \cup {id \in e.torrents : e.task[id] = "running"}]
    IN  IF e.torrents = {} THEN shutdown_disk(e1) ELSE [e1 EXCEPT !.pc = "join_torrents"]

EngineInit ==
    /\ engine = EngineNew
    /\ PickerIdle
    /\ CodecIdle
    /\ IoVecsIdle
    /\ DiskIdle
    /\ TrackerIdle

\* EngineHandle::create_torrent(params): a fresh id, the command sent; the
\* send fails when the engine task has returned.
UserCreateTorrent ==
    /\ engine # None
    /\ engine.user = "handle"
    /\ engine.next_id \in TorrentIds
    /\ engine' = IF engine.pc = "returned"
                 THEN [engine EXCEPT !.next_id = @ + 1]
                 ELSE [engine EXCEPT
                          !.cmd_q = Append(@, [type |-> "CreateTorrent", id |-> engine.next_id]),
                          !.created = @ \cup {engine.next_id},
                          !.next_id = @ + 1]
    /\ UNCHANGED notEngineVars

\* EngineHandle::shutdown(self) up to the await of the engine's handle; it
\* returns the error of the send when the engine task has returned.
UserShutdown ==
    /\ engine # None
    /\ engine.user = "handle"
    /\ engine' = IF engine.pc = "returned"
                 THEN [engine EXCEPT !.user = "resolved"]
                 ELSE [engine EXCEPT !.cmd_q = Append(@, [type |-> "Shutdown"]),
                                     !.user = "awaiting"]
    /\ UNCHANGED notEngineVars

\* EngineHandle::shutdown resolves: the engine task has returned.
UserJoined ==
    /\ engine # None
    /\ engine.user = "awaiting"
    /\ engine.pc = "returned"
    /\ engine' = [engine EXCEPT !.user = "resolved"]
    /\ UNCHANGED notEngineVars

\* Engine::run receives a command and handles it up to the next await.
EngineRecv ==
    /\ engine # None
    /\ engine.pc = "recv"
    /\ engine.cmd_q # <<>>
    /\ LET cmd == Head(engine.cmd_q)
           e == [engine EXCEPT !.cmd_q = Tail(@)]
       IN  engine' = CASE cmd.type = "CreateTorrent" -> create_torrent(e, cmd.id)
                       [] cmd.type = "TorrentAllocation" ->
                             torrent_allocation(e, cmd.id, cmd.result)
                       [] cmd.type = "Shutdown" -> shutdown(e)
    /\ UNCHANGED notEngineVars

\* Engine::shutdown: the await of a torrent's join handle ends; behind the
\* last one the disk task is shut down.
EngineJoinTorrent(id) ==
    /\ engine # None
    /\ engine.pc = "join_torrents"
    /\ id \in engine.torrents \ engine.joined
    /\ engine.task[id] = "done"
    /\ LET e == [engine EXCEPT !.joined = @ \cup {id}]
       IN  engine' = IF e.joined = e.torrents THEN shutdown_disk(e) ELSE e
    /\ UNCHANGED notEngineVars

\* Engine::shutdown: the await of the disk task's handle ends, shutdown and
\* run return.
EngineJoinDisk ==
    /\ engine # None
    /\ engine.pc = "join_disk"
    /\ engine.disk_task = "done"
    /\ engine' = [engine EXCEPT !.disk_joined = TRUE, !.pc = "returned",
                                !.result = Some("Ok")]
    /\ UNCHANGED notEngineVars

\* A torrent task receives Shutdown and ends.
TorrentShutdown(id) ==
    /\ engine # None
    /\ engine.task[id] = "running"
    /\ id \in engine.torrent_q
    /\ engine' = [engine EXCEPT !.task[id] = "done", !.torrent_q = @ \ {id}]
    /\ UNCHANGED notEngineVars

\* A torrent task ends on its own.
TorrentExit(id) ==
    /\ engine # None
    /\ engine.task[id] = "running"
    /\ engine' = [engine EXCEPT !.task[id] = "done", !.torrent_q = @ \ {id}]
    /\ UNCHANGED notEngineVars

\* The disk task receives a command: it answers NewTorrent with the result
\* of the allocation and ends on Shutdown.
DiskRecv(result) ==
    /\ engine # None
    /\ engine.disk_task = "running"
    /\ engine.disk_q # <<>>
    /\ LET cmd == Head(engine.disk_q)
           e == [engine EXCEPT !.disk_q = Tail(@)]
       IN  engine' = IF cmd.type = "Shutdown"
                     THEN [e EXCEPT !.disk_task = "done"]
                     ELSE [e EXCEPT !.cmd_q =
                              IF e.pc = "returned" THEN @
                              ELSE Append(@, [type |-> "TorrentAllocation",
                                              id |-> cmd.id, result |-> result])]
    /\ UNCHANGED notEngineVars

EngineNext ==
    \/ UserCreateTorrent
    \/ UserShutdown
    \/ UserJoined
    \/ EngineRecv
    \/ \E id \in TorrentIds : EngineJoinTorrent(id)
    \/ EngineJoinDisk
    \/ \E id \in TorrentIds : TorrentShutdown(id)
    \/ \E id \in TorrentIds : TorrentExit(id)
    \/ \E result \in {"Ok", "Err"} : DiskRecv(result)

SpecEngine == EngineInit /\ [][EngineNext]_vars

\* The disk task ends on its own, dropping its receiver and its sender of
\* engine commands.
DiskExit ==
    /\ engine # None
    /\ engine.disk_task = "running"
    /\ engine' = [engine EXCEPT !.disk_task = "done", !.disk_q = <<>>]
    /\ UNCHANGED notEngineVars

\* The user drops the EngineHandle without a shutdown.
UserDrop ==
    /\ engine # None
    /\ engine.user = "handle"
    /\ engine' = [engine EXCEPT !.user = "dropped"]
    /\ UNCHANGED notEngineVars

\* Engine::run: cmd_rx.recv() returns None, every sender (the handle's and
\* the disk task's) being dropped and the channel empty; run returns Ok.
EngineChannelClosed ==
    /\ engine # None
    /\ engine.pc = "recv"
    /\ engine.cmd_q = <<>>
    /\ engine.user = "dropped"
    /\ engine.disk_task = "done"
    /\ engine' = [engine EXCEPT !.pc = "returned", !.result = Some("Ok")]
    /\ UNCHANGED notEngineVars

\* The engine where the disk task may fail and the user may drop the handle
EngineFaultyNext ==
    \/ UserCreateTorrent
    \/ UserShutdown
    \/ UserJoined
    \/ EngineRecv
    \/ \E id \in TorrentIds : EngineJoinTorrent(id)
    \/ EngineJoinDisk
    \/ \E id \in TorrentIds : TorrentShutdown(id)
    \/ \E id \in TorrentIds : TorrentExit(id)
    \/ \E result \in {"Ok", "Err"} : DiskRecv(result)
    \/ DiskExit
    \/ UserDrop
    \/ EngineChannelClosed

SpecEngineFaulty == EngineInit /\ [][EngineFaultyNext]_vars

\* The runtime schedules every task that can run: the engine task, the
\* torrent and disk tasks that hold a Shutdown, and the user's await.
EngineFairness ==
    /\ WF_vars(EngineRecv)
    /\ WF_vars(\E id \in TorrentIds : EngineJoinTorrent(id))
    /\ WF_vars(EngineJoinDisk)
    /\ WF_vars(\E id \in TorrentIds : TorrentShutdown(id))
    /\ WF_vars(\E result \in {"Ok", "Err"} : DiskRecv(result))
    /\ WF_vars(UserJoined)

SpecEngineLive == EngineInit /\ [][EngineNext]_vars /\ EngineFairness


\* The engine has sent Shutdown to the disk task
DiskShutdownSent ==
    \/ \E i \in 1 .. Len(engine.disk_q) : engine.disk_q[i].type = "Shutdown"
    \/ engine.disk_task = "done"

\* C24: Shutdown goes to the disk task only after every registered torrent
\* has been sent Shutdown and its task has ended and been joined, and the
\* engine task returns only after the disk task has ended and been joined.
C24_ShutdownOrder ==
    engine # None =>
        /\ DiskShutdownSent =>
              \A id \in engine.torrents :
                  /\ id \in engine.sent
                  /\ id \in engine.joined
                  /\ engine.task[id] = "done"
        /\ engine.pc = "returned" =>
              /\ engine.disk_joined
              /\ engine.disk_task = "done"

\* The engine has returned from a shutdown with every torrent registered
\* and joined.
C24_Witness ==
    /\ engine # None
    /\ engine.pc = "returned"
    /\ engine.result = Some("Ok")
    /\ engine.torrents = TorrentIds
    /\ engine.joined = TorrentIds
    /\ engine.disk_joined

\* C25: once the engine has received the failed allocation of a torrent,
\* the CreateTorrent command has failed, the torrent is not in the
\* engine's map and no task of it is running.
C25_FailedAllocationUnregisters ==
    engine # None =>
        \A id \in engine.failed :
            /\ id \notin engine.created
            /\ id \notin engine.torrents
            /\ engine.task[id] # "running"

\* Every task has ended and been joined
AllJoined ==
    /\ engine.pc = "returned"
    /\ engine.joined = engine.torrents
    /\ \A id \in TorrentIds : engine.task[id] # "running"
    /\ engine.disk_task = "done"
    /\ engine.disk_joined

\* C26: once the user has sent Shutdown, the engine task eventually
\* returns and EngineHandle::shutdown resolves, with every torrent task
\* and the disk task joined.
C26_GracefulShutdown ==
    (engine # None /\ engine.user = "awaiting")
        ~> (engine # None /\ engine.user = "resolved" /\ AllJoined)

\* EngineHandle::shutdown has resolved with every torrent registered.
C26_Witness ==
    /\ engine # None
    /\ engine.user = "resolved"
    /\ engine.torrents = TorrentIds
    /\ AllJoined

----------------------------------------------------------------------------
(* The tracker client (tracker.rs, tracker/mod.rs): the query string of    *)
(* an announce and the decoding of the compact peer list of a response.    *)
(* Text is a sequence of ASCII codes, raw data a sequence of bytes.        *)

\* Length of the info hash and peer id checked (20 in the program)
MaxHashLen == 2
\* Number of entries of a compact peer string
MaxPeers == 2

\* An upper-case hexadecimal digit, as the percent_encoding crate writes it
HexDigit(n) == IF n < 10 THEN 48 + n ELSE 55 + n

\* '%' and the two hexadecimal digits of the byte
PercentEncodeByte(b) == <<37, HexDigit(b \div 16), HexDigit(b % 16)>>

IsAlphanumeric(b) ==
    \/ b \in 48 .. 57
    \/ b \in 65 .. 90
    \/ b \in 97 .. 122

\* URL_ENCODE_RESERVED: NON_ALPHANUMERIC without '-', '.', '_' and '~'
URL_ENCODE_RESERVED == {b \in 0 .. 127 : ~IsAlphanumeric(b)} \ {45, 46, 95, 126}

\* percent_encoding::percent_encode(bytes, set).to_string(); bytes above
\* 127 are always encoded.
percent_encode(bytes, set) ==
    Flatten([i \in 1 .. Len(bytes) |->
                IF bytes[i] >= 128 \/ bytes[i] \in set
                THEN PercentEncodeByte(bytes[i]) ELSE <<bytes[i]>>])

\* The serialisation of a value by query_pairs_mut().append_pair (the
\* application/x-www-form-urlencoded byte serialiser of the url crate):
\* alphanumerics, '*', '-', '.' and '_' stay, a space becomes '+', every
\* other byte of the value is percent-encoded.
append_pair(value) ==
    Flatten([i \in 1 .. Len(value) |->
                IF IsAlphanumeric(value[i]) \/ value[i] \in {42, 45, 46, 95}
                THEN <<value[i]>>
                ELSE IF value[i] = 32 THEN <<43>>
                ELSE PercentEncodeByte(value[i])])

\* Tracker::announce: the values of info_hash and peer_id in the query of
\* the request URL
announce_query(params) ==
    [info_hash |-> append_pair(percent_encode(params.info_hash, URL_ENCODE_RESERVED)),
     peer_id   |-> append_pair(percent_encode(params.peer_id, URL_ENCODE_RESERVED))]

\* Ipv4Addr::from(b.get_u32()): the big-endian number of four bytes, kept
\* as two 16-bit halves, and the octets of the address made from it
get_u32_halves(b) == [hi |-> b[1] * 256 + b[2], lo |-> b[3] * 256 + b[4]]
Ipv4Addr_from(n) == <<n.hi \div 256, n.hi % 256, n.lo \div 256, n.lo % 256>>
get_u16(b) == b[1] * 256 + b[2]

RECURSIVE VisitLoop(_, _)
\* The loop of visit_bytes over the rest b of the string
VisitLoop(b, peers) ==
    IF b = <<>> THEN peers
    ELSE VisitLoop(Drop(b, 6),
                   Append(peers, [ip   |-> Ipv4Addr_from(get_u32_halves(b)),
                                  port |-> get_u16(Drop(b, 4))]))

\* deserialize_peers, Visitor::visit_bytes
visit_bytes_NoLengthCheck(b) ==
    [kind |-> "Ok", peers |-> VisitLoop(Take(b, 6 * (Len(b) \div 6)), <<>>)]
visit_bytes(b) ==
    IF Len(b) % 6 # 0
    THEN [kind |-> "Err", peers |-> <<>>]
    ELSE [kind |-> "Ok", peers |-> VisitLoop(b, <<>>)]

\* Bytes of the hashes checked: NUL, space, '%', '*', '-', '.', '0', 'A',
\* '_', 'z', '~' and 0xFF
HashBytes == {0, 32, 37, 42, 45, 46, 48, 65, 95, 122, 126, 255}
PeerIdBytes == {45, 67, 200}
\* The entries of the compact peer strings checked
PeerEntries ==
    { <<1, 2, 3, 4, 26, 225>>, <<10, 0, 0, 1, 0, 80>>,
      <<255, 255, 255, 255, 255, 255>>, <<0, 0, 0, 0, 0, 0>> }
\* Compact peer strings of up to MaxPeers entries, whole or cut short
PeerStrings ==
    LET whole == {Flatten(es) : es \in SeqsUpTo(PeerEntries, MaxPeers)}
    IN  UNION {{Take(w, n) : n \in 0 .. Len(w)} : w \in whole}

TrackerInit ==
    /\ \/ \E ih \in [1 .. MaxHashLen -> HashBytes], id \in [1 .. MaxHashLen -> PeerIdBytes] :
             tracker = [pc |-> "announce", info_hash |-> ih, peer_id |-> id, out |-> None]
       \/ \E b \in PeerStrings :
             tracker = [pc |-> "response", peers |-> b, out |-> None]
    /\ PickerIdle
    /\ CodecIdle
    /\ IoVecsIdle
    /\ DiskIdle
    /\ EngineIdle

\* Tracker::announce builds the request URL
Announce ==
    /\ tracker # None
    /\ tracker.pc = "announce"
    /\ tracker' = [tracker EXCEPT !.pc = "sent", !.out = Some(announce_query(tracker))]
    /\ UNCHANGED notTrackerVars

\* The peers value of the response is deserialised
DeserializePeers ==
    /\ tracker # None
    /\ tracker.pc = "response"
    /\ tracker' = [tracker EXCEPT !.pc = "parsed", !.out = Some(visit_bytes(tracker.peers))]
    /\ UNCHANGED notTrackerVars

TrackerNext ==
    \/ Announce
    \/ DeserializePeers

SpecTracker == TrackerInit /\ [][TrackerNext]_vars

\* C27: a compact peer string of length 6k yields exactly k addresses in
\* input order, entry j being the address of bytes 6j..6j+3 and the
\* big-endian port of bytes 6j+4..6j+5; any other length yields an error
\* and no addresses.
C27_CompactPeers ==
    (tracker # None /\ tracker.pc = "parsed") =>
        LET b == tracker.peers
            r == tracker.out.value
        IN  IF Len(b) % 6 = 0
            THEN /\ r.kind = "Ok"
                 /\ Len(r.peers) * 6 = Len(b)
                 /\ \A j \in 0 .. Len(r.peers) - 1 :
                       /\ r.peers[j + 1].ip = <<b[6*j + 1], b[6*j + 2], b[6*j + 3], b[6*j + 4]>>
                       /\ r.peers[j + 1].port = b[6*j + 5] * 256 + b[6*j + 6]
            ELSE /\ r.kind = "Err"
                 /\ r.peers = <<>>

\* Two different entries have been decoded.
C27_Witness ==
    /\ tracker # None
    /\ tracker.pc = "parsed"
    /\ tracker.out.value.kind = "Ok"
    /\ Len(tracker.out.value.peers) = 2
    /\ tracker.out.value.peers[1] = [ip |-> <<1, 2, 3, 4>>, port |-> 6881]
    /\ tracker.out.value.peers[2] = [ip |-> <<255, 255, 255, 255>>, port |-> 65535]

\* The percent-encoding of raw bytes the claim describes
Unreserved(b) == IsAlphanumeric(b) \/ b \in {45, 46, 95, 126}
PercentEncoded(bytes) ==
    Flatten([i \in 1 .. Len(bytes) |->
                IF Unreserved(bytes[i]) THEN <<bytes[i]>> ELSE PercentEncodeByte(bytes[i])])

\* C28: in the request URL the info_hash and peer_id values are the
\* percent-encoding of the raw bytes: letters, digits, '-', '.', '_' and
\* '~' as themselves, every other byte as '%' and its two hex digits.
C28_PercentEncodedOnce ==
    (tracker # None /\ tracker.pc = "sent") =>
        /\ tracker.out.value.info_hash = PercentEncoded(tracker.info_hash)
        /\ tracker.out.value.peer_id = PercentEncoded(tracker.peer_id)


\* The number of bytes a write of the current call has to write
WriteLen(c) == Min(c.slice.len, TotalLen(c.blocks))

\* C31: a successful write has written exactly min(file_slice.len, length
\* of the blocks) bytes, none at or past file_slice.offset +
\* file_slice.len, and returns as its tail the block bytes after the first
\* file_slice.len, unmodified and in order.
C31_WriteBounded ==
    (disk # None /\ disk.pc = "written") =>
        LET c == disk.call IN
        /\ c.total = WriteLen(c)
        /\ \A w \in disk.log : w[1] < c.slice.offset + c.slice.len
        /\ Flatten(disk.rest) = Drop(Flatten(c.blocks), WriteLen(c))


\* A write that needed two pwritev calls has returned a tail that starts
\* inside a block.
C31_Witness ==
    /\ disk # None
    /\ disk.pc = "written"
    /\ disk.call.sys.value.before > 0
    /\ disk.rest # <<>>
    /\ Len(disk.rest[1]) < Len(disk.call.blocks[Len(disk.call.blocks) - Len(disk.rest) + 1])
    /\ disk.call.slice.offset > 0


\* C38: read stores at most file_slice.len bytes into the buffers, byte k
\* of the buffers taken from file position file_slice.offset + k, and
\* returns as its tail the buffers behind the first file_slice.len bytes,
\* also when the buffers are longer than the slice and the file holds more
\* data behind it.
C38_ReadBounded ==
    (disk # None /\ disk.pc \in {"reading", "read_done"} /\ disk.call.op = "read") =>
        LET c == disk.call
            places == Flatten(c.io_vecs)
            most == Min(c.slice.len, Len(places))
        IN  /\ disk.log \subseteq {<<places[k], c.slice.offset + k - 1>> : k \in 1 .. most}
            /\ disk.pc = "read_done" => Flatten(disk.rest) = Drop(places, most)


\* C39: every call of write and of read returns, whatever byte counts the
\* system calls return, zero included.
C39_Terminates ==
    (disk # None /\ disk.pc \in {"writing", "reading"})
        ~> (disk # None /\ disk.pc \in {"written", "read_done", "failed"})


----------------------------------------------------------------------------
(* Further properties of the engine *)

\* C33: Shutdown has been sent to every registered torrent before the
\* engine awaits the join handle of any of them: while it awaits, every
\* torrent that still runs holds its Shutdown or has received it.
C33_BroadcastBeforeJoin ==
    (engine # None /\ (engine.pc = "join_torrents" \/ engine.joined # {})) =>
        /\ engine.sent = engine.torrents
        /\ \A id \in engine.torrents :
              engine.task[id] = "running" => id \in engine.torrent_q

\* The engine awaits its first join handle while every torrent still runs.
C33_Witness ==
    /\ engine # None
    /\ engine.pc = "join_torrents"
    /\ engine.joined = {}
    /\ engine.torrents = TorrentIds
    /\ \A id \in TorrentIds : engine.task[id] = "running"

\* C34: when the send of Shutdown to a torrent fails because its task has
\* stopped, the shutdown goes on: every torrent is sent Shutdown and
\* joined, the disk task is shut down and joined, and the engine returns.
C34_StoppedTorrentIgnored ==
    (engine # None /\ engine.send_failed # {})
        ~> (engine # None /\ engine.result = Some("Ok")
                /\ engine.sent = engine.torrents /\ AllJoined)

\* The engine has returned from a shutdown in which one torrent had stopped
\* before and another one was still running.
C34_Witness ==
    /\ engine # None
    /\ engine.result = Some("Ok")
    /\ engine.send_failed # {}
    /\ engine.send_failed # engine.torrents
    /\ AllJoined

\* C40: whenever the engine task has returned, every torrent task it
\* spawned and the disk task have ended.
C40_NoTaskOutlivesEngine ==
    (engine # None /\ engine.pc = "returned") =>
        /\ \A id \in TorrentIds : engine.task[id] # "running"
        /\ engine.disk_task = "done"


----------------------------------------------------------------------------
(* Progress of the download, checked under SpecLive *)

\* Every missing piece is advertised by a peer
AllMissingAdvertised ==
    \A i \in DOMAIN picker.pieces :
        ~picker.own_pieces[i] => picker.pieces[i].frequency > 0

\* A call of pick_piece returns Some when a piece that is not owned, not
\* pending and advertised exists
C35_PickStep ==
    (ret'.op = "pick_piece" /\ \E i \in DOMAIN picker.pieces : PickCond(picker, i))
        => ret'.result.some

\* C35: once every missing piece is advertised, with picks scheduled
\* fairly and every picked piece received, the picker reaches
\* missing_piece_count() = 0; and pick_piece returns Some whenever a piece
\* that is not owned, not pending and advertised exists.
C35_DownloadProgress ==
    /\ [][C35_PickStep]_vars
    /\ AllMissingAdvertised ~> (missing_piece_count(picker) = 0)

\* The last of two missing pieces has been received after both were
\* picked.
C35_Witness ==
    /\ missing_piece_count(picker) = 0
    /\ piece_count(picker) = 2
    /\ ret.op = "received_piece"
    /\ ~ret.panicked
    /\ \A i \in DOMAIN picker.pieces : picker.pieces[i].frequency > 0
    /\ picker.free_count = 0


----------------------------------------------------------------------------
(* Further properties of the codecs *)

\* C36: encoding a message appends exactly 4 + L bytes to the buffer, L
\* being the value of the big-endian length prefix written, for every
\* message type, Bitfield of any bit length and Block of any data length
\* included.
C36_PrefixIsLength ==
    (cpc = "encoded_message" /\ ctail = <<>>) =>
        /\ Len(cbuf) >= 4
        /\ Len(cbuf) = 4 + get_u32(Take(cbuf, 4))


\* C37: decode never panics and never reads past the end of the frame: a
\* complete frame too short for its type yields an error or a defined
\* result.
C37_ShortFrame ==
    (cpc = "wire_message" /\ Len(ctail) >= 4 /\ Len(ctail) >= 4 + get_u32(ctail)) =>
        /\ cout.kind # "Panic"
        /\ Len(ctail) - Len(cbuf) <= 4 + get_u32(ctail)


----------------------------------------------------------------------------
(* A stream of messages: the sender encodes messages back to back, the     *)
(* socket delivers the bytes in chunks of any size, and the framed reader  *)
(* calls decode on its read buffer. cmsg holds the messages sent, ctail the *)
(* bytes not yet delivered, cbuf the read buffer and cout what decode has  *)
(* returned.                                                               *)

\* Number of messages of a stream
MaxStream == 2

StreamMessages ==
    {KeepAlive, Choke, Have(1), Request(BlockInfo(1, 0, 16384)),
     Block(256, 16384, <<127>>), BitfieldMsg([i \in 0 .. 0 |-> TRUE]),
     BitfieldMsg([i \in 0 .. 7 |-> i = 0])}

RECURSIVE EncodeAll(_)
\* encode called for every message in turn on the same buffer, the storage
\* of a bitfield beyond its length being zero
EncodeAll(msgs) ==
    IF msgs = <<>> THEN <<>> ELSE encode(msgs[1], FALSE) \o EncodeAll(Tail(msgs))

StreamInit ==
    /\ \E msgs \in SeqsUpTo(StreamMessages, MaxStream) :
          /\ cmsg = msgs
          /\ ctail = EncodeAll(msgs)
    /\ cbuf = <<>>
    /\ cout = [items |-> <<>>, last |-> "None", before |-> <<>>]
    /\ cpc = "stream"
    /\ PickerIdle
    /\ IoVecsIdle
    /\ OthersIdle

\* The socket delivers the next n bytes into the read buffer.
StreamReceive(n) ==
    /\ cpc = "stream"
    /\ n \in 1 .. Len(ctail)
    /\ cbuf' = cbuf \o Take(ctail, n)
    /\ ctail' = Drop(ctail, n)
    /\ UNCHANGED <<cmsg, cout, cpc, notCodecVars>>

\* The framed reader calls decode; an error or a panic ends the stream.
StreamDecode ==
    /\ cpc = "stream"
    /\ LET r == decode(cbuf) IN
       /\ cbuf' = r.buf
       /\ cout' = [items  |-> IF r.out.kind = "Some" THEN Append(cout.items, r.out.item)
                              ELSE cout.items,
                   last   |-> r.out.kind,
                   before |-> cbuf]
       /\ cpc' = IF r.out.kind \in {"Some", "None"} THEN "stream" ELSE "stream_failed"
    /\ UNCHANGED <<cmsg, ctail, notCodecVars>>

StreamNext ==
    \/ \E n \in 1 .. 17 * MaxStream : StreamReceive(n)
    \/ StreamDecode

SpecStream == StreamInit /\ [][StreamNext]_vars

\* What decode has returned is the beginning of what was sent, and all of
\* it once every byte is delivered and decode returns None.
StreamAligned ==
    /\ cpc # "stream_failed"
    /\ Len(cout.items) <= Len(cmsg)
    /\ cout.items = Take(cmsg, Len(cout.items))
    /\ (ctail = <<>> /\ cout.last = "None" /\ cout.before = cbuf) =>
          (cout.items = cmsg /\ cbuf = <<>>)

\* A call of decode that returns None leaves the buffer as it was.
StreamNoneStep ==
    (cout' # cout /\ cout'.last = "None") => cbuf' = cbuf

\* C32: messages encoded back to back and delivered in arbitrary chunks
\* come out of repeated decode calls as the same messages in the same
\* order; a call that returns None leaves the buffer unchanged, and no
\* byte of one frame is taken for part of another.
C32_FrameAlignment == []StreamAligned /\ [][StreamNoneStep]_vars

=============================================================================
